---- MODULE Spec2Model ----
(***************************************************************************)
(* ConfluenceApiService (src/src/services/confluence-api.ts): the HTTP     *)
(* protocol of getPage, searchPages, getSpaces, createPage and updatePage, *)
(* the error mapping of fetchJson / handleFetchError and the normalizer    *)
(* cleanPage, against a content service that holds versioned pages.        *)
(*                                                                         *)
(* Text (URLs, markup, error messages) is a sequence of tokens: a token is *)
(* a "/" separator, a tag, a whitespace character or a slash-free run of   *)
(* characters. Template literals are concatenations of token sequences.    *)
(***************************************************************************)
EXTENDS Integers, Sequences, FiniteSets, TLC

\* ------------------------------------------------------------------ bounds
\* highest page version the service is driven to
MaxVersion == 3
\* number of pages createPage may add to the service
MaxCreated == 2

\* ------------------------------------------------------------------ inputs
\* the logical callers of the one service instance
AllCallers == {"a", "b"}
\* the callers that are active under Spec (sequential use)
Callers == {"a"}

\* page ids a caller passes: "p1" exists from the start, "p9" never exists
ArgIds == {"p1", "p9"}
\* ids the service hands out to created pages, in order
NewIds == <<"n1", "n2", "n3">>
SpaceKeys == {<<"TEST">>}
OldTitle == "Test Page"
NewTitle == "Updated Test Page"
\* storage-format markup, tokenized
OldMarkup == <<"<p>", "This", " ", "is", " ", "</p>">>
NewMarkup == <<"<p>", "Updated", "</p>">>
\* CQL queries, as characters
Queries == {<<"t", "e">>, <<"a", "/", "b">>}

\* service-side failures: status codes with their status text
ErrStatuses == {400, 404, 500}
\* JSON error bodies; "" is an absent (or empty) field, parseable = FALSE is a
\* body that is missing or is not JSON
ErrBodies ==
  { [parseable |-> TRUE,  message |-> "Space not found", errorMessage |-> ""],
    [parseable |-> TRUE,  message |-> "", errorMessage |-> "Legacy failure"],
    [parseable |-> TRUE,  message |-> "Space not found", errorMessage |-> "Legacy failure"],
    [parseable |-> TRUE,  message |-> "", errorMessage |-> ""],
    [parseable |-> FALSE, message |-> "", errorMessage |-> ""] }
\* messages of the errors fetch itself rejects with
Causes == {"Network error"}

\* ------------------------------------------------------------- text helpers
Last(s) == s[Len(s)]
Front(s) == SubSeq(s, 1, Len(s) - 1)

StatusText(status) ==
  CASE status = 200 -> "OK"
    [] status = 400 -> "Bad Request"
    [] status = 404 -> "Not Found"
    [] status = 500 -> "Internal Server Error"
    [] OTHER -> ""

\* String(n) of a template literal
NumText(n) ==
  CASE n = 200 -> "200"
    [] n = 400 -> "400"
    [] n = 404 -> "404"
    [] n = 500 -> "500"
    [] OTHER -> "?"

\* application/x-www-form-urlencoded serialization of one character
EncodeChar(ch) ==
  CASE ch = "/" -> "%2F"
    [] ch = "," -> "%2C"
    [] ch = " " -> "+"
    [] OTHER -> ch

RECURSIVE EncodeValue(_)
EncodeValue(s) ==
  IF s = <<>> THEN <<>> ELSE <<EncodeChar(Head(s))>> \o EncodeValue(Tail(s))

\* new URLSearchParams({expand: ...}).toString() of getPage
PageParams ==
  <<"expand=">> \o EncodeValue(<<"body.storage", ",", "version", ",", "ancestors", ",",
      "history", ",", "metadata.labels", ",", "space", ",", "children.page">>)

\* new URLSearchParams({cql, limit, expand}).toString() of searchPages
SearchParams(query) ==
  <<"cql=">> \o EncodeValue(query) \o <<"&", "limit=", "50", "&", "expand=">>
    \o EncodeValue(<<"body.storage", ",", "version", ",", "ancestors", ",",
      "history", ",", "metadata.labels", ",", "space">>)

\* new URLSearchParams({limit, expand}).toString() of getSpaces
SpaceParams == <<"limit=", "100", "&", "expand=", "description">>

ContentPath == <<"/", "rest", "/", "api", "/", "content">>
PageUrl(pageId) == ContentPath \o <<"/", pageId, "?">> \o PageParams
PutUrl(pageId) == ContentPath \o <<"/", pageId>>
SearchUrl(query) == ContentPath \o <<"/", "search", "?">> \o SearchParams(query)
SpaceUrl == <<"/", "rest", "/", "api", "/", "space", "?">> \o SpaceParams

\* ------------------------------------------------------------ error mapping
\* a || b that prefers its second operand
Or_Second(a, b) == IF b # "" THEN b ELSE a

\* a || b on strings: "" is falsy
Or(a, b) == IF a # "" THEN a ELSE b

\* url.includes('/content/')
IncludesContent(url) ==
  \E i \in 1..(Len(url) - 2) :
    url[i] = "/" /\ url[i + 1] = "content" /\ url[i + 2] = "/"

\* the positions where /\/content\/([^/]+)/ can match: "/content/" followed by
\* at least one character that is not "/"
MatchStarts(url) ==
  { i \in 1..(Len(url) - 3) :
      url[i] = "/" /\ url[i + 1] = "content" /\ url[i + 2] = "/" /\ url[i + 3] # "/" }

\* the greedy run [^/]+ that starts at position from
RECURSIVE SlashFreeRun(_, _)
SlashFreeRun(url, from) ==
  IF from > Len(url) \/ url[from] = "/" THEN <<>>
  ELSE <<url[from]>> \o SlashFreeRun(url, from + 1)

\* url.match(/\/content\/([^/]+)/): <<>> when there is no match, else <<match[1]>>
ContentMatch(url) ==
  IF MatchStarts(url) = {} THEN <<>>
  ELSE LET i == CHOOSE j \in MatchStarts(url) : \A k \in MatchStarts(url) : j <= k
       IN  <<SlashFreeRun(url, i + 3)>>

Error(message) == [name |-> "Error", message |-> message]

\* errorData = await response.json().catch(() => ({}))
ErrorData(response) ==
  IF response.parseable
    THEN [message |-> response.json.message, errorMessage |-> response.json.errorMessage]
    ELSE [message |-> "", errorMessage |-> ""]

\* handleFetchError that reports the bare service message, without the prefix
\* and the status suffix
HandleFetchError_BareMessage(response, url) ==
  IF ~response.ok
    THEN LET errorData == ErrorData(response)
             match == ContentMatch(url)
             message == Or(Or(errorData.message, errorData.errorMessage), response.statusText)
         IN  IF response.status = 404 /\ IncludesContent(url) /\ match # <<>>
               THEN Error(<<"Content not found: ">> \o match[1])
               ELSE Error(<<message>>)
    ELSE Error(<<"Unknown error occurred">>)

\* the Error handleFetchError(response, url) throws
HandleFetchError(response, url) ==
  IF ~response.ok
    THEN LET errorData == ErrorData(response)
             match == ContentMatch(url)
             message == Or(Or(errorData.message, errorData.errorMessage), response.statusText)
         IN  IF response.status = 404 /\ IncludesContent(url) /\ match # <<>>
               THEN Error(<<"Content not found: ">> \o match[1])
               ELSE Error(<<"Confluence API Error: ", message, " (Status: ",
                            NumText(response.status), ")">>)
    ELSE Error(<<"Unknown error occurred">>)

\* outcomes of fetch(): a response, or a rejection with the cause
Response(status, parseable, json) ==
  [kind |-> "response", ok |-> status = 200, status |-> status,
   statusText |-> StatusText(status), parseable |-> parseable, json |-> json]
Rejection(cause) == [kind |-> "reject", cause |-> Error(<<cause>>)]

\* fetchJson that catches the rejection of fetch and reports it as an API error
FetchJson_WrapReject(url, outcome) ==
  IF outcome.kind = "reject"
    THEN [kind |-> "throw",
          error |-> Error(<<"Confluence API Error: ", outcome.cause.message[1],
                            " (Status: ", NumText(0), ")">>)]
  ELSE IF ~outcome.ok THEN [kind |-> "throw", error |-> HandleFetchError(outcome, url)]
  ELSE [kind |-> "value", json |-> outcome.json]

\* fetchJson(url, init) once fetch has settled with outcome: the JSON value it
\* resolves to, or the error it rejects with
FetchJson(url, outcome) ==
  IF outcome.kind = "reject" THEN [kind |-> "throw", error |-> outcome.cause]
  ELSE IF ~outcome.ok THEN [kind |-> "throw", error |-> HandleFetchError(outcome, url)]
  ELSE [kind |-> "value", json |-> outcome.json]

\* -------------------------------------------------------------- normalizer
Tags ==
  {"<p>", "</p>", "<strong>", "</strong>", "<h1>", "</h1>", "<h2>", "</h2>",
   "<h3>", "</h3>", "<h4>", "</h4>", "<h5>", "</h5>", "<h6>", "</h6>",
   "<b>", "</b>", "<em>", "</em>", "<i>", "</i>", "<a href=\"u\">", "</a>",
   "<ul>", "</ul>", "<ol>", "</ol>", "<li>", "</li>", "<br/>", "<pre>", "</pre>",
   "<span>", "</span>", "<ac:macro>", "</ac:macro>"}
Spaces == {" ", "\n", "\t"}
Undefined == "<undefined>"

\* content.replace(/<[^>]*>/g, ' ')
RECURSIVE StripTags(_)
StripTags(s) ==
  IF s = <<>> THEN <<>>
  ELSE <<IF Head(s) \in Tags THEN " " ELSE Head(s)>> \o StripTags(Tail(s))

\* .replace(/\s+/g, ' ')
RECURSIVE CollapseSpaces(_)
CollapseSpaces(s) ==
  IF s = <<>> THEN <<>>
  ELSE IF Head(s) \in Spaces
    THEN IF Len(s) > 1 /\ s[2] \in Spaces THEN CollapseSpaces(Tail(s))
         ELSE <<" ">> \o CollapseSpaces(Tail(s))
    ELSE <<Head(s)>> \o CollapseSpaces(Tail(s))

\* .trim()
RECURSIVE Trim(_)
Trim(s) ==
  IF s = <<>> THEN <<>>
  ELSE IF Head(s) \in Spaces THEN Trim(Tail(s))
  ELSE IF Last(s) \in Spaces THEN Trim(Front(s))
  ELSE s

\* extractTextContent(content)
extractTextContent(content) == Trim(CollapseSpaces(StripTags(content)))

\* s.split('/')[0]: the characters before the first "/"
RECURSIVE SplitPop_First(_)
SplitPop_First(s) ==
  IF s = <<>> \/ Head(s) = "/" THEN <<>> ELSE <<Head(s)>> \o SplitPop_First(Tail(s))

\* s.split('/').pop(): the characters after the last "/"
RECURSIVE SplitPop(_)
SplitPop(s) ==
  IF s = <<>> \/ Last(s) = "/" THEN <<>> ELSE SplitPop(Front(s)) \o <<Last(s)>>

\* cleanPage(page) reporting the root of the ancestor chain as the parent
cleanPage_FirstAncestor(page) ==
  [id |-> page.id,
   title |-> page.title,
   spaceKey |-> IF page.expandableSpace # <<>> THEN SplitPop(page.expandableSpace) ELSE <<>>,
   version |-> IF page.version # 0 THEN page.version ELSE 1,
   content |-> extractTextContent(page.body),
   parentId |-> IF Len(page.ancestors) > 0 THEN page.ancestors[1].id
                ELSE Undefined,
   labels |-> [i \in 1..Len(page.labels) |->
                 [name |-> page.labels[i].name, id |-> page.labels[i].id]]]

\* cleanPage(page) keeping one label of each name
cleanPage_UniqueNames(page) ==
  [id |-> page.id,
   title |-> page.title,
   spaceKey |-> IF page.expandableSpace # <<>> THEN SplitPop(page.expandableSpace) ELSE <<>>,
   version |-> IF page.version # 0 THEN page.version ELSE 1,
   content |-> extractTextContent(page.body),
   parentId |-> IF Len(page.ancestors) > 0 THEN page.ancestors[Len(page.ancestors)].id
                ELSE Undefined,
   labels |-> LET first == SelectSeq([i \in 1..Len(page.labels) |-> i],
                             LAMBDA i : \A j \in 1..(i - 1) :
                                          page.labels[j].name # page.labels[i].name)
              IN  [k \in 1..Len(first) |->
                     [name |-> page.labels[first[k]].name, id |-> page.labels[first[k]].id]]]

\* cleanPage(page); an absent field of the raw page is <<>>, 0 or ""
cleanPage(page) ==
  [id |-> page.id,
   title |-> page.title,
   spaceKey |-> IF page.expandableSpace # <<>> THEN SplitPop(page.expandableSpace) ELSE <<>>,
   version |-> IF page.version # 0 THEN page.version ELSE 1,
   content |-> extractTextContent(page.body),
   parentId |-> IF Len(page.ancestors) > 0 THEN page.ancestors[Len(page.ancestors)].id
                ELSE Undefined,
   labels |-> [i \in 1..Len(page.labels) |->
                 [name |-> page.labels[i].name, id |-> page.labels[i].id]]]

\* --------------------------------------------------------- content cleaner
\* text given to truncateContent is a sequence of single characters
Ellipsis == <<".", ".", ".">>
DefaultMaxLength == 8000

\* content.lastIndexOf(ch, position): the greatest 0-based index at or before
\* position that holds ch, or -1
LastIndexOf(s, ch, position) ==
  LET at == {i \in 0..(Len(s) - 1) : i <= position /\ s[i + 1] = ch}
  IN  IF at = {} THEN -1 ELSE CHOOSE i \in at : \A j \in at : j <= i

\* truncateContent that breaks at the first space at or after maxLength
truncateContent_Forward(content, maxLength) ==
  IF Len(content) <= maxLength THEN content
  ELSE LET at == {i \in 0..(Len(content) - 1) : i >= maxLength /\ content[i + 1] = " "}
       IN  IF at = {} THEN SubSeq(content, 1, maxLength)
           ELSE SubSeq(content, 1, CHOOSE i \in at : \A j \in at : i <= j) \o Ellipsis

\* truncateContent that leaves only strictly shorter content alone
truncateContent_Strict(content, maxLength) ==
  IF Len(content) < maxLength THEN content
  ELSE LET breakPoint == LastIndexOf(content, " ", maxLength)
       IN  IF breakPoint = -1 THEN SubSeq(content, 1, maxLength)
           ELSE SubSeq(content, 1, breakPoint) \o Ellipsis

\* truncateContent that looks for the space before index maxLength only
truncateContent_Exclusive(content, maxLength) ==
  IF Len(content) <= maxLength THEN content
  ELSE LET breakPoint == LastIndexOf(content, " ", maxLength - 1)
       IN  IF breakPoint = -1 THEN SubSeq(content, 1, maxLength)
           ELSE SubSeq(content, 1, breakPoint) \o Ellipsis

\* truncateContent(content, maxLength)
truncateContent(content, maxLength) ==
  IF Len(content) <= maxLength THEN content
  ELSE LET breakPoint == LastIndexOf(content, " ", maxLength)
       IN  IF breakPoint = -1 THEN SubSeq(content, 1, maxLength)
           ELSE SubSeq(content, 1, breakPoint) \o Ellipsis

\* optimizeForAI(content): truncateContent with the default maxLength
optimizeForAI(content) == truncateContent(content, DefaultMaxLength)

\* &[a-z]+; matches a named entity; a numeric one ("&#160;") is not matched
Entities == {"&amp;", "&nbsp;", "&lt;", "&gt;"}

\* .replace(/&[a-z]+;/g, ' ')
ReplaceEntities(s) == [i \in 1..Len(s) |-> IF s[i] \in Entities THEN " " ELSE s[i]]

\* extractTextFromStorage(storageFormat)
extractTextFromStorage(storageFormat) ==
  IF storageFormat = <<>> THEN <<>>
  ELSE Trim(CollapseSpaces(ReplaceEntities(StripTags(storageFormat))))

\* one replace(/<name[^>]*>(.*?)<\/name>/g, pre $1 post) of storageFormatToMarkdown:
\* opens are the tags that <name[^>]*> matches, close is the tag </name>
Rule(opens, close, pre, post) ==
  [opens |-> opens, close |-> close, pre |-> pre, post |-> post, link |-> FALSE]

\* the heading replacement, were it to end the heading line
HeadingRule_Break(level) ==
  Rule({<<"<h1>", "<h2>", "<h3>", "<h4>", "<h5>", "<h6>">>[level]},
       <<"</h1>", "</h2>", "</h3>", "</h4>", "</h5>", "</h6>">>[level],
       <<<<"# ", "## ", "### ", "#### ", "##### ", "###### ">>[level]>>, <<"\n">>)

\* replace(/<hN[^>]*>(.*?)<\/hN>/g, '#..# $1')
HeadingRule(level) ==
  Rule({<<"<h1>", "<h2>", "<h3>", "<h4>", "<h5>", "<h6>">>[level]},
       <<"</h1>", "</h2>", "</h3>", "</h4>", "</h5>", "</h6>">>[level],
       <<<<"# ", "## ", "### ", "#### ", "##### ", "###### ">>[level]>>, <<>>)

\* the list item replacement, were it not to end the item line
ListItemRule_NoBreak == Rule({"<li>"}, "</li>", <<"- ">>, <<>>)

\* replace(/<li[^>]*>(.*?)<\/li>/g, '- $1\n')
ListItemRule == Rule({"<li>"}, "</li>", <<"- ">>, <<"\n">>)

\* replace(/<a[^>]*href="([^"]*)"[^>]*>(.*?)<\/a>/g, '[$2]($1)')
LinkRule ==
  [opens |-> {"<a href=\"u\">"}, close |-> "</a>", pre |-> <<"[">>, post |-> <<>>,
   link |-> TRUE]
\* $1 of the link replacement: the value of the href attribute
Href(tag) == IF tag = "<a href=\"u\">" THEN "u" ELSE ""

\* the replacements in the order storageFormatToMarkdown applies them; <p[^>]*>
\* also matches <pre>, and <b[^>]*> also matches <br/>
MarkdownRules ==
  <<HeadingRule(1), HeadingRule(2), HeadingRule(3), HeadingRule(4), HeadingRule(5),
    HeadingRule(6),
    Rule({"<p>", "<pre>"}, "</p>", <<>>, <<"\n", "\n">>),
    Rule({"<strong>"}, "</strong>", <<"**">>, <<"**">>),
    Rule({"<b>", "<br/>"}, "</b>", <<"**">>, <<"**">>),
    Rule({"<em>"}, "</em>", <<"*">>, <<"*">>),
    Rule({"<i>"}, "</i>", <<"*">>, <<"*">>),
    LinkRule,
    Rule({"<ul>"}, "</ul>", <<>>, <<"\n">>),
    Rule({"<ol>"}, "</ol>", <<>>, <<"\n">>),
    ListItemRule>>

\* (.*?)<\/name>: the position in s of the nearest closing tag that no line
\* break precedes ("." does not match a line break), or 0
CloseIndex(s, close) ==
  LET at == {j \in 1..Len(s) : s[j] = close /\ \A k \in 1..(j - 1) : s[k] # "\n"}
  IN  IF at = {} THEN 0 ELSE CHOOSE j \in at : \A k \in at : j <= k

\* markdown.replace(<rule>): every match, left to right, without overlap
RECURSIVE ReplaceAll(_, _)
ReplaceAll(s, rule) ==
  IF s = <<>> THEN <<>>
  ELSE LET j == CloseIndex(Tail(s), rule.close)
       IN  IF Head(s) \in rule.opens /\ j > 0
             THEN rule.pre \o SubSeq(Tail(s), 1, j - 1)
                    \o (IF rule.link THEN <<"](", Href(Head(s)), ")">> ELSE rule.post)
                    \o ReplaceAll(SubSeq(Tail(s), j + 1, Len(s) - 1), rule)
             ELSE <<Head(s)>> \o ReplaceAll(Tail(s), rule)

RECURSIVE ApplyRules(_, _)
ApplyRules(s, rules) ==
  IF rules = <<>> THEN s ELSE ApplyRules(ReplaceAll(s, Head(rules)), Tail(rules))

\* the token holds a '>': it is the character itself or a whole tag
EndsTag(x) == x = ">" \/ x \in Tags

RECURSIVE RemoveTags(_)
\* the removal, were it to drop whole tags only
RemoveTags_Known(s) == SelectSeq(s, LAMBDA x : x \notin Tags)
\* markdown.replace(/<[^>]*>/g, ''): a whole tag is a match, and so is a '<'
\* with everything up to the nearest '>' after it
RemoveTags(s) ==
  IF s = <<>> THEN <<>>
  ELSE IF Head(s) \in Tags THEN RemoveTags(Tail(s))
  ELSE IF Head(s) = "<" /\ \E j \in 2..Len(s) : EndsTag(s[j])
    THEN LET j == CHOOSE k \in 2..Len(s) :
                    EndsTag(s[k]) /\ \A m \in 2..(k - 1) : ~EndsTag(s[m])
         IN  RemoveTags(SubSeq(s, j + 1, Len(s)))
  ELSE <<Head(s)>> \o RemoveTags(Tail(s))

\* the number of leading whitespace characters of s
RECURSIVE SpaceRun(_)
SpaceRun(s) == IF s = <<>> \/ Head(s) \notin Spaces THEN 0 ELSE 1 + SpaceRun(Tail(s))

\* markdown.replace(/\n\s*\n/g, '\n\n'): a line break, the whitespace after
\* it up to the last line break of that whitespace
RECURSIVE FixSpacing(_)
FixSpacing(s) ==
  IF s = <<>> THEN <<>>
  ELSE LET breaks == {j \in 1..SpaceRun(Tail(s)) : s[j + 1] = "\n"}
       IN  IF Head(s) = "\n" /\ breaks # {}
             THEN LET j == CHOOSE k \in breaks : \A m \in breaks : m <= k
                  IN  <<"\n", "\n">> \o FixSpacing(SubSeq(s, j + 2, Len(s)))
             ELSE <<Head(s)>> \o FixSpacing(Tail(s))

\* storageFormatToMarkdown(storageFormat)
storageFormatToMarkdown(storageFormat) ==
  IF storageFormat = <<>> THEN <<>>
  ELSE Trim(FixSpacing(RemoveTags(ApplyRules(storageFormat, MarkdownRules))))

\* ------------------------------------------------------------ constructor
\* character codes of the characters credentials are written with
Ascii(ch) ==
  CASE ch = "a" -> 97 [] ch = "b" -> 98 [] ch = "e" -> 101 [] ch = "k" -> 107
    [] ch = "m" -> 109 [] ch = "t" -> 116 [] ch = "1" -> 49 [] ch = "@" -> 64
    [] ch = ":" -> 58
\* the digits of base64
Alphabet ==
  <<"A", "B", "C", "D", "E", "F", "G", "H", "I", "J", "K", "L", "M", "N", "O", "P",
    "Q", "R", "S", "T", "U", "V", "W", "X", "Y", "Z", "a", "b", "c", "d", "e", "f",
    "g", "h", "i", "j", "k", "l", "m", "n", "o", "p", "q", "r", "s", "t", "u", "v",
    "w", "x", "y", "z", "0", "1", "2", "3", "4", "5", "6", "7", "8", "9", "+", "/">>

\* Buffer.from(text).toString('base64'), on the character codes of text: three
\* bytes give four digits, a last group of one or two bytes is padded with "="
RECURSIVE Base64(_)
Base64(bytes) ==
  IF bytes = <<>> THEN <<>>
  ELSE LET n == Len(bytes)
           v == bytes[1] * 65536 + (IF n > 1 THEN bytes[2] ELSE 0) * 256
                  + (IF n > 2 THEN bytes[3] ELSE 0)
       IN  <<Alphabet[(v \div 262144) + 1],
             Alphabet[((v \div 4096) % 64) + 1],
             IF n > 1 THEN Alphabet[((v \div 64) % 64) + 1] ELSE "=",
             IF n > 2 THEN Alphabet[(v % 64) + 1] ELSE "=">>
             \o Base64(SubSeq(bytes, 4, n))

\* constructor(baseUrl, email, apiToken): this.headers
constructor(email, apiToken) ==
  LET text == email \o <<":">> \o apiToken
      auth == Base64([i \in 1..Len(text) |-> Ascii(text[i])])
  IN  [Authorization |-> <<"Basic ">> \o auth, Accept |-> "application/json"]
        @@ ("Content-Type" :> "application/json")

\* the email and API token a service is constructed with
Credentials ==
  {[email |-> <<"a", "@", "b">>, apiToken |-> <<"t", "1">>],
   [email |-> <<"m", "e">>, apiToken |-> <<"k">>]}

\* ------------------------------------------------------------------- state
VARIABLES
  headers,  \* the service instance: the headers its constructor built
  pages,    \* the content service: id of each existing page -> the stored page
  pc,       \* per caller: the await its operation is suspended at
  args,     \* per caller: the arguments of the operation in progress
  log,      \* per caller: the requests the operation has passed to fetch, in order
  resps,    \* per caller: the outcomes fetch has settled with, in order
  result    \* per caller: what the operation returned or threw

vars == <<headers, pages, pc, args, log, resps, result>>

\* tool is the tool whose handler made the call ("" for a direct call); limit,
\* format and includeMarkup are the tool's optional arguments (<<>>, "": omitted)
NoArgs ==
  [op |-> "", pageId |-> "", title |-> "", content |-> <<>>, version |-> 0,
   spaceKey |-> <<>>, parentId |-> "", query |-> <<>>,
   tool |-> "", limit |-> <<>>, format |-> "", includeMarkup |-> FALSE]
NoBody == [type |-> "none"]
NoResult == [kind |-> "none"]
Returned(value) == [kind |-> "return", value |-> value]
Thrown(error) == [kind |-> "throw", error |-> error]

\* fetch(this.baseUrl + url, {...init, headers: this.headers})
\* the call, were the options of a request with a body to replace the headers
Request_InitHeaders(method, url, body) ==
  [method |-> method, url |-> url, body |-> body,
   headers |-> IF body = NoBody THEN headers
               ELSE [name \in {"Content-Type"} |-> headers[name]]]
Request(method, url, body) ==
  [method |-> method, url |-> url, body |-> body, headers |-> headers]

\* the request a caller is waiting on, and the outcome it has not consumed yet
InFlight(c) == Len(log[c]) = Len(resps[c]) + 1
Settled(c) == Len(log[c]) > 0 /\ Len(resps[c]) = Len(log[c])
LastRequest(c) == log[c][Len(log[c])]
LastOutcome(c) == resps[c][Len(resps[c])]

Init ==
  /\ \E cred \in Credentials : headers = constructor(cred.email, cred.apiToken)
  /\ \E v \in 1..(MaxVersion - 1) :
       pages = ("p1" :> [title |-> OldTitle, space |-> <<"TEST">>, version |-> v,
                         body |-> OldMarkup, ancestors |-> <<>>])
  /\ pc = [c \in AllCallers |-> "idle"]
  /\ args = [c \in AllCallers |-> NoArgs]
  /\ log = [c \in AllCallers |-> <<>>]
  /\ resps = [c \in AllCallers |-> <<>>]
  /\ result = [c \in AllCallers |-> NoResult]

\* ------------------------------------------------------- the content service
SpacePath == <<"/", "rest", "/", "api", "/", "space", "/">>

\* the JSON the service renders for a stored page
RawPage(id) ==
  [id |-> id, title |-> pages[id].title,
   expandableSpace |-> SpacePath \o pages[id].space,
   version |-> pages[id].version, body |-> pages[id].body,
   ancestors |-> pages[id].ancestors, labels |-> <<>>]

\* the JSON that acknowledges a PUT: the written fields, nothing expanded
PutAck(id, body) ==
  [id |-> id, title |-> body.title, expandableSpace |-> <<>>,
   version |-> body.version.number, body |-> <<>>,
   ancestors |-> <<>>, labels |-> <<>>]

\* request routing
IsContentItem(url) ==
  Len(url) >= 8 /\ SubSeq(url, 1, 6) = ContentPath /\ url[7] = "/" /\ url[8] # "search"
IsSearch(url) ==
  Len(url) >= 8 /\ SubSeq(url, 1, 6) = ContentPath /\ url[7] = "/" /\ url[8] = "search"
IsSpaceList(url) == Len(url) >= 6 /\ SubSeq(url, 1, 6) = <<"/", "rest", "/", "api", "/", "space">>

Created == Cardinality(DOMAIN pages) - 1
RECURSIVE ListPages(_)
ListPages(ids) ==
  IF ids = <<>> THEN <<>>
  ELSE (IF Head(ids) \in DOMAIN pages THEN <<RawPage(Head(ids))>> ELSE <<>>)
         \o ListPages(Tail(ids))

Deliver(c, outcome) ==
  /\ resps' = [resps EXCEPT ![c] = Append(@, outcome)]
  /\ UNCHANGED <<pc, args, log, result>>

\* GET /rest/api/content/{id} of an existing page
ServeGet(c) ==
  /\ InFlight(c)
  /\ LET req == LastRequest(c) IN
       /\ req.method = "GET" /\ IsContentItem(req.url)
       /\ req.url[8] \in DOMAIN pages
       /\ Deliver(c, Response(200, TRUE, RawPage(req.url[8])))
  /\ UNCHANGED <<headers, pages>>

\* items of a result list that are not pages: null, and an object without fields
Null == [null |-> TRUE]
Sparse ==
  [id |-> Undefined, title |-> Undefined, expandableSpace |-> <<>>, version |-> 0,
   body |-> <<>>, ancestors |-> <<>>, labels |-> <<>>]
\* pages of the service that no operation of the model writes: one more than
\* the search_pages tool returns by default
ArchiveIds == <<"x01", "x02", "x03", "x04", "x05", "x06", "x07", "x08", "x09", "x10", "x11">>
Archive ==
  [i \in 1..Len(ArchiveIds) |->
     [id |-> ArchiveIds[i], title |-> OldTitle, expandableSpace |-> SpacePath \o <<"TEST">>,
      version |-> 1, body |-> OldMarkup, ancestors |-> <<>>, labels |-> <<>>]]

\* the JSON bodies a search can be answered with: the pages that match are
\* the stored ones, with or without the archive; results holds the first n of
\* them, possibly followed by an item that is not a page; totalSize is the
\* number of matches, or is missing; results may be missing too
SearchBodies ==
  LET stored == ListPages(<<"p1">> \o NewIds)
      lists == {SubSeq(stored, 1, n) : n \in 0..Len(stored)} \cup {stored \o Archive}
      total(l) == IF Len(l) > Len(stored) THEN Len(l) ELSE Len(stored)
  IN  {[results |-> l \o extra, totalSize |-> total(l)] :
         l \in lists, extra \in {<<>>, <<Null>>, <<Sparse>>}}
        \cup {[results |-> l \o extra] : l \in lists, extra \in {<<>>, <<Null>>, <<Sparse>>}}
        \cup {[totalSize |-> 0]}

\* GET /rest/api/content/search
ServeSearch(c) ==
  /\ InFlight(c)
  /\ LET req == LastRequest(c) IN
       /\ req.method = "GET" /\ IsSearch(req.url)
       /\ \E body \in SearchBodies : Deliver(c, Response(200, TRUE, body))
  /\ UNCHANGED <<headers, pages>>

\* GET /rest/api/space
ServeSpaces(c) ==
  /\ InFlight(c)
  /\ LET req == LastRequest(c) IN
       /\ req.method = "GET" /\ IsSpaceList(req.url)
       /\ Deliver(c, Response(200, TRUE,
            [results |-> <<[id |-> "space-123", key |-> <<"TEST">>, name |-> "Test Space",
                            description |-> "This is a test space",
                            type |-> "GLOBAL", status |-> "CURRENT"]>>,
             size |-> 1]))
  /\ UNCHANGED <<headers, pages>>

\* POST /rest/api/content: the page is stored and only its id is acknowledged
ServePost(c) ==
  /\ InFlight(c)
  /\ Created < MaxCreated
  /\ LET req == LastRequest(c)
         id == NewIds[Created + 1]
     IN
       /\ req.method = "POST" /\ req.url = ContentPath
       /\ pages' = pages @@ (id :> [title |-> req.body.title, space |-> req.body.space.key,
                                    version |-> 1, body |-> req.body.body.storage.value,
                                    ancestors |-> req.body.ancestors])
       /\ Deliver(c, Response(200, TRUE, [id |-> id]))
  /\ UNCHANGED headers

\* PUT /rest/api/content/{id}: accepted when it carries the next version; the
\* acknowledgement is not the expanded page a GET returns
ServePut(c) ==
  /\ InFlight(c)
  /\ LET req == LastRequest(c) IN
       /\ req.method = "PUT" /\ IsContentItem(req.url)
       /\ req.url[8] \in DOMAIN pages
       /\ req.body.version.number = pages[req.url[8]].version + 1
       /\ req.body.version.number <= MaxVersion
       /\ pages' = [pages EXCEPT ![req.url[8]] =
                      [@ EXCEPT !.title = req.body.title,
                                !.body = req.body.body.storage.value,
                                !.version = req.body.version.number]]
       /\ Deliver(c, Response(200, TRUE, PutAck(req.url[8], req.body)))
  /\ UNCHANGED headers

\* any request answered with a non-success status; the service is unchanged
ServeError(c, status, body) ==
  /\ InFlight(c)
  /\ Deliver(c, Response(status, body.parseable,
                         [message |-> body.message, errorMessage |-> body.errorMessage]))
  /\ UNCHANGED <<headers, pages>>

\* fetch rejects: no response is received
FetchReject(c, cause) ==
  /\ InFlight(c)
  /\ Deliver(c, Rejection(cause))
  /\ UNCHANGED <<headers, pages>>

\* ------------------------------------------------------------- operations
Call(c, at, a, request) ==
  /\ pc' = [pc EXCEPT ![c] = at]
  /\ args' = [args EXCEPT ![c] = a]
  /\ log' = [log EXCEPT ![c] = <<request>>]
  /\ UNCHANGED <<headers, pages, resps, result>>

\* the operation issues its next request and suspends at the await
Await(c, at, request) ==
  /\ pc' = [pc EXCEPT ![c] = at]
  /\ log' = [log EXCEPT ![c] = Append(@, request)]
  /\ UNCHANGED <<headers, pages, args, resps, result>>

\* the operation settles: it returns a value or throws
Settle(c, res) ==
  /\ pc' = [pc EXCEPT ![c] = "done"]
  /\ result' = [result EXCEPT ![c] = res]
  /\ UNCHANGED <<headers, pages, args, log, resps>>

\* await this.fetchJson(url, init) of the request the caller waits on
Fetched(c) == FetchJson(LastRequest(c).url, LastOutcome(c))

\* getPage(pageId), up to its await
getPage(c, pageId) ==
  /\ pc[c] = "idle"
  /\ Call(c, "getPage", [NoArgs EXCEPT !.op = "getPage", !.pageId = pageId],
          Request("GET", PageUrl(pageId), NoBody))

\* the rest of getPage, also where createPage and updatePage return this.getPage(..)
GetPageResult(c) ==
  IF Fetched(c).kind = "value" THEN Returned(cleanPage(Fetched(c).json))
  ELSE Thrown(Fetched(c).error)

getPageDone(c) ==
  /\ pc[c] = "getPage" /\ Settled(c)
  /\ Settle(c, GetPageResult(c))

\* searchPages(query), up to its await
searchPages(c, query) ==
  /\ pc[c] = "idle"
  /\ Call(c, "searchPages", [NoArgs EXCEPT !.op = "searchPages", !.query = query],
          Request("GET", SearchUrl(query), NoBody))

\* cleanPage(null): page.body of null
TypeError == [name |-> "TypeError", message |-> <<"Cannot read properties of null">>]

\* data.totalSize || 0, and data.results || []
TotalSize(data) == IF "totalSize" \in DOMAIN data THEN data.totalSize ELSE 0
Results(data) == IF "results" \in DOMAIN data THEN data.results ELSE <<>>

\* the return statement of searchPages, were it to leave out the items that
\* cannot be normalized
SearchResult_Skip(data) ==
  Returned([total |-> TotalSize(data),
            pages |-> LET items == SelectSeq(Results(data), LAMBDA x : x # Null)
                      IN  [i \in 1..Len(items) |-> cleanPage(items[i])]])

\* the return statement of searchPages: the object, or the TypeError of map
SearchResult(data) ==
  IF \E i \in 1..Len(Results(data)) : Results(data)[i] = Null
    THEN Thrown(TypeError)
    ELSE Returned([total |-> TotalSize(data),
                   pages |-> [i \in 1..Len(Results(data)) |->
                                cleanPage(Results(data)[i])]])

searchPagesDone(c) ==
  /\ pc[c] = "searchPages" /\ Settled(c)
  /\ Settle(c, IF Fetched(c).kind = "value" THEN SearchResult(Fetched(c).json)
               ELSE Thrown(Fetched(c).error))

\* ------------------------------------------------- the search_pages tool
MaxLimit == 2
DefaultLimit == 10
Limits == {<<>>} \cup {<<n>> : n \in 0..MaxLimit}
Formats == {"", "markdown"}

\* case 'search_pages', up to await this.confluenceApi.searchPages(query)
search_pages(c, query, limit, format, includeMarkup) ==
  /\ pc[c] = "idle"
  /\ Call(c, "searchPages",
          [NoArgs EXCEPT !.op = "searchPages", !.query = query, !.tool = "search_pages",
                         !.limit = limit, !.format = format,
                         !.includeMarkup = includeMarkup],
          Request("GET", SearchUrl(query), NoBody))

\* limit = 10, format = 'text': the defaults of the omitted arguments
LimitOf(a) == IF a.limit = <<>> THEN DefaultLimit ELSE a.limit[1]
FormatOf(a) == IF a.format = "" THEN "text" ELSE a.format

\* pageObj; url, updated and updatedBy are copied and are left out here
PageObj(page, format, includeMarkup) ==
  LET formattedContent ==
        IF format = "markdown" /\ page.content # <<>>
          THEN storageFormatToMarkdown(page.content) ELSE page.content
      pageObj == [id |-> page.id, title |-> page.title, spaceKey |-> page.spaceKey,
                  content |-> optimizeForAI(formattedContent), version |-> page.version]
  IN  IF includeMarkup /\ "contentMarkup" \in DOMAIN page
        THEN pageObj @@ ("contentMarkup" :> page.contentMarkup)
        ELSE pageObj

\* the pages of the reply, were slice(0, limit) left out
LimitedPages_NoSlice(pages_, limit, format, includeMarkup) ==
  [i \in 1..Len(pages_) |-> PageObj(pages_[i], format, includeMarkup)]

\* result.pages.slice(0, limit).map(...)
LimitedPages(pages_, limit, format, includeMarkup) ==
  [i \in 1..(IF limit < Len(pages_) THEN limit ELSE Len(pages_)) |->
     PageObj(pages_[i], format, includeMarkup)]

\* what the handler returns: the JSON text as the object it renders, or the
\* error text of the catch clause
SearchReply(a, res) ==
  IF res.kind = "return"
    THEN LET limitedPages ==
               LimitedPages(res.value.pages, LimitOf(a), FormatOf(a), a.includeMarkup)
         IN  [kind |-> "reply", isError |-> FALSE,
              total |-> res.value.total, returned |-> Len(limitedPages),
              pages |-> limitedPages]
    ELSE [kind |-> "reply", isError |-> TRUE,
          text |-> <<"Error searching pages: ">> \o res.error.message]

\* the rest of case 'search_pages'
search_pagesReply(c) ==
  /\ pc[c] = "done" /\ args[c].tool = "search_pages"
  /\ result' = [result EXCEPT ![c] = SearchReply(args[c], result[c])]
  /\ pc' = [pc EXCEPT ![c] = "replied"]
  /\ UNCHANGED <<headers, pages, args, log, resps>>

ToLowerCase(s) ==
  CASE s = "GLOBAL" -> "global"
    [] s = "PERSONAL" -> "personal"
    [] s = "CURRENT" -> "current"
    [] s = "ARCHIVED" -> "archived"
    [] OTHER -> s

\* getSpaces(), up to its await
getSpaces(c) ==
  /\ pc[c] = "idle"
  /\ Call(c, "getSpaces", [NoArgs EXCEPT !.op = "getSpaces"], Request("GET", SpaceUrl, NoBody))

SpacesResult(data) ==
  [total |-> data.size,
   spaces |-> [i \in 1..Len(data.results) |->
                 [id |-> data.results[i].id, key |-> data.results[i].key,
                  name |-> data.results[i].name,
                  description |-> data.results[i].description,
                  type |-> ToLowerCase(data.results[i].type),
                  status |-> ToLowerCase(data.results[i].status)]]]

getSpacesDone(c) ==
  /\ pc[c] = "getSpaces" /\ Settled(c)
  /\ Settle(c, IF Fetched(c).kind = "value" THEN Returned(SpacesResult(Fetched(c).json))
               ELSE Thrown(Fetched(c).error))

\* the creation payload; parentId "" is an omitted argument
CreatePayload(spaceKey, title, content, parentId) ==
  [type |-> "page", title |-> title, space |-> [key |-> spaceKey],
   body |-> [storage |-> [value |-> content, representation |-> "storage"]],
   ancestors |-> IF parentId # "" THEN <<[id |-> parentId]>> ELSE <<>>]

\* createPage(spaceKey, title, content, parentId), up to the await of the POST
createPage(c, spaceKey, title, content, parentId) ==
  /\ pc[c] = "idle"
  /\ Call(c, "createPage_post",
          [NoArgs EXCEPT !.op = "createPage", !.spaceKey = spaceKey, !.title = title,
                         !.content = content, !.parentId = parentId],
          Request("POST", ContentPath, CreatePayload(spaceKey, title, content, parentId)))

\* createPage returning the normalized POST acknowledgement without the re-fetch
createPagePosted_NoRefetch(c) ==
  /\ pc[c] = "createPage_post" /\ Settled(c)
  /\ IF Fetched(c).kind = "value"
       THEN Settle(c, Returned([id |-> Fetched(c).json.id, title |-> args[c].title,
                                spaceKey |-> args[c].spaceKey, version |-> 1,
                                content |-> extractTextContent(args[c].content),
                                parentId |-> Undefined, labels |-> <<>>]))
       ELSE Settle(c, Thrown(Fetched(c).error))

\* createPage re-fetching the page the service created last, whoever created it
createPagePosted_LastCreated(c) ==
  /\ pc[c] = "createPage_post" /\ Settled(c)
  /\ IF Fetched(c).kind = "value"
       THEN Await(c, "createPage_get", Request("GET", PageUrl(NewIds[Created]), NoBody))
       ELSE Settle(c, Thrown(Fetched(c).error))

\* createPage after the POST: return this.getPage(page.id), or the POST's error
createPagePosted(c) ==
  /\ pc[c] = "createPage_post" /\ Settled(c)
  /\ IF Fetched(c).kind = "value"
       THEN Await(c, "createPage_get",
                  Request("GET", PageUrl(Fetched(c).json.id), NoBody))
       ELSE Settle(c, Thrown(Fetched(c).error))

\* createPage that fetches the created page once more when the re-fetch failed
createPageDone_Retry(c) ==
  /\ pc[c] = "createPage_get" /\ Settled(c)
  /\ IF GetPageResult(c).kind = "throw" /\ Len(log[c]) < 3
       THEN Await(c, "createPage_get", LastRequest(c))
       ELSE Settle(c, GetPageResult(c))

\* createPage's return this.getPage(page.id) settles
createPageDone(c) ==
  /\ pc[c] = "createPage_get" /\ Settled(c)
  /\ Settle(c, GetPageResult(c))

\* the payload with the version derived from the page read, not from the argument
UpdatePayload_ReadVersion(currentPage, title, content, version) ==
  [type |-> "page", title |-> title, space |-> [key |-> currentPage.spaceKey],
   body |-> [storage |-> [value |-> content, representation |-> "storage"]],
   version |-> [number |-> currentPage.version + 1]]

\* the payload with the version argument passed on without the increment
UpdatePayload_NoIncrement(currentPage, title, content, version) ==
  [type |-> "page", title |-> title, space |-> [key |-> currentPage.spaceKey],
   body |-> [storage |-> [value |-> content, representation |-> "storage"]],
   version |-> [number |-> version]]

\* the update payload built from the page read first
UpdatePayload(currentPage, title, content, version) ==
  [type |-> "page", title |-> title, space |-> [key |-> currentPage.spaceKey],
   body |-> [storage |-> [value |-> content, representation |-> "storage"]],
   version |-> [number |-> version + 1]]

\* updatePage(pageId, title, content, version), up to the await of getPage
updatePage(c, pageId, title, content, version) ==
  /\ pc[c] = "idle"
  /\ Call(c, "updatePage_get",
          [NoArgs EXCEPT !.op = "updatePage", !.pageId = pageId, !.title = title,
                         !.content = content, !.version = version],
          Request("GET", PageUrl(pageId), NoBody))

\* updatePage that refuses, before any PUT, a version other than the one read
updatePageRead_PreValidate(c) ==
  /\ pc[c] = "updatePage_get" /\ Settled(c)
  /\ IF GetPageResult(c).kind = "return"
       THEN IF GetPageResult(c).value.version = args[c].version
              THEN Await(c, "updatePage_put",
                         Request("PUT", PutUrl(args[c].pageId),
                                 UpdatePayload(GetPageResult(c).value, args[c].title,
                                               args[c].content, args[c].version)))
              ELSE Settle(c, Thrown(Error(<<"Version conflict">>)))
       ELSE Settle(c, GetPageResult(c))

\* updatePage that goes on to the PUT when its first getPage has failed
updatePageRead_IgnoreFailure(c) ==
  /\ pc[c] = "updatePage_get" /\ Settled(c)
  /\ Await(c, "updatePage_put",
           Request("PUT", PutUrl(args[c].pageId),
                   UpdatePayload(IF GetPageResult(c).kind = "return"
                                   THEN GetPageResult(c).value
                                   ELSE [spaceKey |-> <<>>, version |-> 1],
                                 args[c].title, args[c].content, args[c].version)))

\* updatePage after the first getPage: the PUT, or the read's error
updatePageRead(c) ==
  /\ pc[c] = "updatePage_get" /\ Settled(c)
  /\ IF GetPageResult(c).kind = "return"
       THEN Await(c, "updatePage_put",
                  Request("PUT", PutUrl(args[c].pageId),
                          UpdatePayload(GetPageResult(c).value, args[c].title,
                                        args[c].content, args[c].version)))
       ELSE Settle(c, GetPageResult(c))

\* updatePage that writes once more, with the next number, after its PUT
updatePageWritten_PutAgain(c) ==
  /\ pc[c] = "updatePage_put" /\ Settled(c)
  /\ IF Fetched(c).kind = "value"
       THEN Await(c, "updatePage_put",
                  Request("PUT", PutUrl(args[c].pageId),
                          UpdatePayload([spaceKey |-> LastRequest(c).body.space.key],
                                        args[c].title, args[c].content,
                                        LastRequest(c).body.version.number)))
       ELSE Settle(c, Thrown(Fetched(c).error))

\* updatePage returning the normalized PUT response without the re-fetch
updatePageWritten_NoRefetch(c) ==
  /\ pc[c] = "updatePage_put" /\ Settled(c)
  /\ IF Fetched(c).kind = "value"
       THEN Settle(c, Returned(cleanPage(Fetched(c).json)))
       ELSE Settle(c, Thrown(Fetched(c).error))

\* updatePage that goes on to its re-fetch whatever the answer to the PUT
updatePageWritten_IgnoreRefusal(c) ==
  /\ pc[c] = "updatePage_put" /\ Settled(c)
  /\ Await(c, "updatePage_refetch", Request("GET", PageUrl(args[c].pageId), NoBody))

\* updatePage after the PUT: return this.getPage(pageId), or the PUT's error
updatePageWritten(c) ==
  /\ pc[c] = "updatePage_put" /\ Settled(c)
  /\ IF Fetched(c).kind = "value"
       THEN Await(c, "updatePage_refetch",
                  Request("GET", PageUrl(args[c].pageId), NoBody))
       ELSE Settle(c, Thrown(Fetched(c).error))

\* updatePage's return this.getPage(pageId) settles
updatePageDone(c) ==
  /\ pc[c] = "updatePage_refetch" /\ Settled(c)
  /\ Settle(c, GetPageResult(c))

\* ------------------------------------------------------ the other tools
DefaultSpacesLimit == 50
DefaultChildLimit == 25

\* the catch clause of a handler: error instanceof Error ? error.message : ...
\* (every error of the model is an Error instance)
ErrorReply_Generic(prefix, error) ==
  [kind |-> "reply", isError |-> TRUE, text |-> <<prefix, "Unknown error">>]
ErrorReply(prefix, error) ==
  [kind |-> "reply", isError |-> TRUE, text |-> <<prefix>> \o error.message]

\* the handler returns its content
Reply(c, reply) ==
  /\ result' = [result EXCEPT ![c] = reply]
  /\ pc' = [pc EXCEPT ![c] = "replied"]
  /\ UNCHANGED <<headers, pages, args, log, resps>>

\* arr.slice(0, limit), limit >= 0
Slice(arr, limit) == SubSeq(arr, 1, IF limit < Len(arr) THEN limit ELSE Len(arr))
LimitOr(a, default) == IF a.limit = <<>> THEN default ELSE a.limit[1]

\* case 'get_page', up to await this.confluenceApi.getPage(pageId)
get_page(c, pageId, format, includeMarkup) ==
  /\ pc[c] = "idle"
  /\ Call(c, "getPage",
          [NoArgs EXCEPT !.op = "getPage", !.pageId = pageId, !.tool = "get_page",
                         !.format = format, !.includeMarkup = includeMarkup],
          Request("GET", PageUrl(pageId), NoBody))

\* responseObj; url, created, updated, createdBy and updatedBy are copied and
\* are left out here
ResponseObj(page, format, includeMarkup) ==
  LET formattedContent ==
        IF format = "markdown" /\ page.content # <<>>
          THEN storageFormatToMarkdown(page.content) ELSE page.content
      responseObj == [id |-> page.id, title |-> page.title, spaceKey |-> page.spaceKey,
                      content |-> formattedContent, version |-> page.version]
  IN  IF includeMarkup /\ "contentMarkup" \in DOMAIN page
        THEN responseObj @@ ("contentMarkup" :> page.contentMarkup)
        ELSE responseObj

\* the rest of case 'get_page'
get_pageReply(c) ==
  /\ pc[c] = "done" /\ args[c].tool = "get_page"
  /\ Reply(c, IF result[c].kind = "return"
                THEN [kind |-> "reply", isError |-> FALSE,
                      page |-> ResponseObj(result[c].value, FormatOf(args[c]),
                                           args[c].includeMarkup)]
                ELSE ErrorReply("Error retrieving page: ", result[c].error))

\* case 'get_spaces', up to await this.confluenceApi.getSpaces()
get_spaces(c, limit) ==
  /\ pc[c] = "idle"
  /\ Call(c, "getSpaces",
          [NoArgs EXCEPT !.op = "getSpaces", !.tool = "get_spaces", !.limit = limit],
          Request("GET", SpaceUrl, NoBody))

\* the rest of case 'get_spaces'
get_spacesReply(c) ==
  /\ pc[c] = "done" /\ args[c].tool = "get_spaces"
  /\ Reply(c, IF result[c].kind = "return"
                THEN LET limitedSpaces ==
                           Slice(result[c].value.spaces, LimitOr(args[c], DefaultSpacesLimit))
                     IN  [kind |-> "reply", isError |-> FALSE,
                          total |-> result[c].value.total,
                          returned |-> Len(limitedSpaces), spaces |-> limitedSpaces]
                ELSE ErrorReply("Error retrieving spaces: ", result[c].error))

\* case 'create_page', up to await this.confluenceApi.createPage(...); the
\* service method has no editorMode parameter
create_page(c, spaceKey, title, content, parentId) ==
  /\ pc[c] = "idle"
  /\ Call(c, "createPage_post",
          [NoArgs EXCEPT !.op = "createPage", !.spaceKey = spaceKey, !.title = title,
                         !.content = content, !.parentId = parentId,
                         !.tool = "create_page"],
          Request("POST", ContentPath, CreatePayload(spaceKey, title, content, parentId)))

\* the rest of case 'create_page'
create_pageReply(c) ==
  /\ pc[c] = "done" /\ args[c].tool = "create_page"
  /\ Reply(c, IF result[c].kind = "return"
                THEN [kind |-> "reply", isError |-> FALSE,
                      text |-> <<"Page created successfully!\n\nID: ", result[c].value.id,
                                 "\nTitle: ", result[c].value.title, "\nSpace: ">>
                                 \o result[c].value.spaceKey]
                ELSE ErrorReply("Failed to create page: ", result[c].error))

\* case 'update_page', up to the first await of updatePage
update_page(c, pageId, title, content, version) ==
  /\ pc[c] = "idle"
  /\ Call(c, "updatePage_get",
          [NoArgs EXCEPT !.op = "updatePage", !.pageId = pageId, !.title = title,
                         !.content = content, !.version = version,
                         !.tool = "update_page"],
          Request("GET", PageUrl(pageId), NoBody))

\* the rest of case 'update_page'
update_pageReply(c) ==
  /\ pc[c] = "done" /\ args[c].tool = "update_page"
  /\ Reply(c, IF result[c].kind = "return"
                THEN [kind |-> "reply", isError |-> FALSE,
                      page |-> [id |-> result[c].value.id, title |-> result[c].value.title,
                                spaceKey |-> result[c].value.spaceKey,
                                version |-> result[c].value.version,
                                message |-> "Page updated successfully"]]
                ELSE ErrorReply("Error updating page: ", result[c].error))

\* The comment and attachment methods of the service are not in the source:
\* each is an operation that returns its entity or throws one of the errors
\* of the service, and its requests are not modelled.
Comment(pageId) ==
  [id |-> "comment-456", pageId |-> pageId,
   content |-> <<"This", " ", "is", " ", "a", " ", "test", " ", "comment">>]
Attachment == [id |-> "att-1", title |-> "file.txt"]
ServiceErrors(pageId) ==
  {Error(<<"Content not found: ", pageId>>),
   Error(<<"Confluence API Error: ", "Internal server error", " (Status: ", "500", ")">>),
   Error(<<"Network error">>)}
Lists(item) == {<<>>, <<item>>, <<item, item>>}

\* a handler awaits a method whose requests are not modelled
Enter(c, at, a) ==
  /\ pc' = [pc EXCEPT ![c] = at]
  /\ args' = [args EXCEPT ![c] = a]
  /\ UNCHANGED <<headers, pages, log, resps, result>>

\* case 'get_comments', up to await this.confluenceApi.getComments(pageId)
get_comments(c, pageId, format, limit) ==
  /\ pc[c] = "idle"
  /\ Enter(c, "getComments",
           [NoArgs EXCEPT !.op = "getComments", !.pageId = pageId, !.format = format,
                          !.limit = limit, !.tool = "get_comments"])

getCommentsDone(c) ==
  /\ pc[c] = "getComments"
  /\ \/ \E l \in Lists(Comment(args[c].pageId)) :
          Settle(c, Returned([total |-> Len(l), comments |-> l]))
     \/ \E e \in ServiceErrors(args[c].pageId) : Settle(c, Thrown(e))

\* the rest of case 'get_comments'
get_commentsReply(c) ==
  /\ pc[c] = "done" /\ args[c].tool = "get_comments"
  /\ Reply(c, IF result[c].kind = "return"
                THEN LET sliced == Slice(result[c].value.comments,
                                         LimitOr(args[c], DefaultChildLimit))
                         limitedComments ==
                           [i \in 1..Len(sliced) |->
                              [sliced[i] EXCEPT
                                 !.content =
                                   optimizeForAI(IF FormatOf(args[c]) = "markdown" /\ @ # <<>>
                                                   THEN storageFormatToMarkdown(@) ELSE @)]]
                     IN  [kind |-> "reply", isError |-> FALSE,
                          total |-> result[c].value.total,
                          returned |-> Len(limitedComments), comments |-> limitedComments]
                ELSE ErrorReply("Error retrieving comments: ", result[c].error))

\* case 'add_comment', up to await this.confluenceApi.addComment(...)
add_comment(c, pageId, content) ==
  /\ pc[c] = "idle"
  /\ Enter(c, "addComment",
           [NoArgs EXCEPT !.op = "addComment", !.pageId = pageId, !.content = content,
                          !.tool = "add_comment"])

addCommentDone(c) ==
  /\ pc[c] = "addComment"
  /\ \/ Settle(c, Returned([Comment(args[c].pageId) EXCEPT
                              !.content = extractTextContent(args[c].content)]))
     \/ \E e \in ServiceErrors(args[c].pageId) : Settle(c, Thrown(e))

\* the rest of case 'add_comment'
add_commentReply(c) ==
  /\ pc[c] = "done" /\ args[c].tool = "add_comment"
  /\ Reply(c, IF result[c].kind = "return"
                THEN [kind |-> "reply", isError |-> FALSE,
                      comment |-> [result[c].value EXCEPT !.content = optimizeForAI(@)],
                      message |-> "Comment added successfully"]
                ELSE ErrorReply("Error adding comment: ", result[c].error))

\* case 'get_attachments', up to await this.confluenceApi.getAttachments(pageId)
get_attachments(c, pageId, limit) ==
  /\ pc[c] = "idle"
  /\ Enter(c, "getAttachments",
           [NoArgs EXCEPT !.op = "getAttachments", !.pageId = pageId, !.limit = limit,
                          !.tool = "get_attachments"])

getAttachmentsDone(c) ==
  /\ pc[c] = "getAttachments"
  /\ \/ \E l \in Lists(Attachment) :
          Settle(c, Returned([total |-> Len(l), attachments |-> l]))
     \/ \E e \in ServiceErrors(args[c].pageId) : Settle(c, Thrown(e))

\* the rest of case 'get_attachments'
get_attachmentsReply(c) ==
  /\ pc[c] = "done" /\ args[c].tool = "get_attachments"
  /\ Reply(c, IF result[c].kind = "return"
                THEN LET limitedAttachments ==
                           Slice(result[c].value.attachments,
                                 LimitOr(args[c], DefaultChildLimit))
                     IN  [kind |-> "reply", isError |-> FALSE,
                          total |-> result[c].value.total,
                          returned |-> Len(limitedAttachments),
                          attachments |-> limitedAttachments]
                ELSE ErrorReply("Error retrieving attachments: ", result[c].error))

\* case 'add_attachment', up to await this.confluenceApi.addAttachment(...)
add_attachment(c, pageId) ==
  /\ pc[c] = "idle"
  /\ Enter(c, "addAttachment",
           [NoArgs EXCEPT !.op = "addAttachment", !.pageId = pageId,
                          !.tool = "add_attachment"])

addAttachmentDone(c) ==
  /\ pc[c] = "addAttachment"
  /\ \/ Settle(c, Returned(Attachment))
     \/ \E e \in ServiceErrors(args[c].pageId) : Settle(c, Thrown(e))

\* the rest of case 'add_attachment'
add_attachmentReply(c) ==
  /\ pc[c] = "done" /\ args[c].tool = "add_attachment"
  /\ Reply(c, IF result[c].kind = "return"
                THEN [kind |-> "reply", isError |-> FALSE,
                      attachment |-> result[c].value,
                      message |-> "Attachment added successfully"]
                ELSE ErrorReply("Error adding attachment: ", result[c].error))

\* the caller takes the result; the call leaves nothing behind in the service
\* object
Finish(c) ==
  /\ \/ pc[c] = "done" /\ args[c].tool = ""
     \/ pc[c] = "replied"
  /\ pc' = [pc EXCEPT ![c] = "idle"]
  /\ args' = [args EXCEPT ![c] = NoArgs]
  /\ log' = [log EXCEPT ![c] = <<>>]
  /\ resps' = [resps EXCEPT ![c] = <<>>]
  /\ result' = [result EXCEPT ![c] = NoResult]
  /\ UNCHANGED <<headers, pages>>

\* ----------------------------------------------------------- specification
Next ==
  \E c \in Callers :
    \/ \E id \in ArgIds : getPage(c, id)
    \/ getPageDone(c)
    \/ \E q \in Queries : searchPages(c, q)
    \/ searchPagesDone(c)
    \/ \E q \in Queries, limit \in Limits, format \in Formats, includeMarkup \in BOOLEAN :
         search_pages(c, q, limit, format, includeMarkup)
    \/ search_pagesReply(c)
    \/ \E id \in ArgIds, format \in Formats, includeMarkup \in BOOLEAN :
         get_page(c, id, format, includeMarkup)
    \/ get_pageReply(c)
    \/ \E limit \in Limits : get_spaces(c, limit)
    \/ get_spacesReply(c)
    \/ \E k \in SpaceKeys, parent \in {"", "p1"} :
         create_page(c, k, NewTitle, NewMarkup, parent)
    \/ create_pageReply(c)
    \/ \E id \in ArgIds, v \in 1..MaxVersion : update_page(c, id, NewTitle, NewMarkup, v)
    \/ update_pageReply(c)
    \/ \E id \in ArgIds, format \in Formats, limit \in Limits :
         get_comments(c, id, format, limit)
    \/ getCommentsDone(c)
    \/ get_commentsReply(c)
    \/ \E id \in ArgIds : add_comment(c, id, NewMarkup)
    \/ addCommentDone(c)
    \/ add_commentReply(c)
    \/ \E id \in ArgIds, limit \in Limits : get_attachments(c, id, limit)
    \/ getAttachmentsDone(c)
    \/ get_attachmentsReply(c)
    \/ \E id \in ArgIds : add_attachment(c, id)
    \/ addAttachmentDone(c)
    \/ add_attachmentReply(c)
    \/ getSpaces(c)
    \/ getSpacesDone(c)
    \/ \E k \in SpaceKeys, parent \in {"", "p1"} : createPage(c, k, NewTitle, NewMarkup, parent)
    \/ createPagePosted(c)
    \/ createPageDone(c)
    \/ \E id \in ArgIds, v \in 1..MaxVersion : updatePage(c, id, NewTitle, NewMarkup, v)
    \/ updatePageRead(c)
    \/ updatePageWritten(c)
    \/ updatePageDone(c)
    \/ Finish(c)
    \/ ServeGet(c)
    \/ ServeSearch(c)
    \/ ServeSpaces(c)
    \/ ServePost(c)
    \/ ServePut(c)
    \/ \E status \in ErrStatuses, body \in ErrBodies : ServeError(c, status, body)
    \/ \E cause \in Causes : FetchReject(c, cause)

Spec == Init /\ [][Next]_vars

\* ------------------------------------------------------------------ claims
\* what the calls of updatePage have in hand
Updating(c) == args[c].op = "updatePage"
\* the PUT of an updatePage call has been passed to fetch
PutIssued(c) == Updating(c) /\ Len(log[c]) >= 2
\* the version of the page that the first GET of updatePage returned
ReadVersion(c) == cleanPage(resps[c][1].json).version

\* C1 (as stated): the PUT of updatePage carries version.number = (version
\* returned by the GET just before it) + 1, whatever the version argument is.
C1_ReadVersionPlusOne ==
  \A c \in AllCallers :
    PutIssued(c) => log[c][2].body.version.number = ReadVersion(c) + 1

\* C1 (amended): the PUT of updatePage carries (version read by the GET) + 1
\* exactly when the version argument equals the version read; with any other
\* argument the number sent differs from (version read) + 1.
C1_ReadVersionIffArgument ==
  \A c \in AllCallers :
    PutIssued(c) =>
      (log[c][2].body.version.number = ReadVersion(c) + 1
         <=> args[c].version = ReadVersion(c))

\* a PUT is out whose version argument differs from the version just read
C1_Witness ==
  \E c \in AllCallers :
    PutIssued(c) /\ log[c][2].method = "PUT" /\ args[c].version # ReadVersion(c)

\* C2: once the initial read of updatePage(pageId, title, content, version) has
\* succeeded, the PUT body carries version.number = version + 1 (the argument),
\* type 'page', the caller's title and the caller's content in storage format.
C2_PutBody ==
  \A c \in AllCallers :
    (/\ Updating(c)
     /\ Len(resps[c]) >= 1
     /\ resps[c][1].kind = "response" /\ resps[c][1].ok
     /\ pc[c] # "updatePage_get")
    => /\ Len(log[c]) >= 2
       /\ log[c][2].method = "PUT"
       /\ log[c][2].body.version.number = args[c].version + 1
       /\ log[c][2].body.type = "page"
       /\ log[c][2].body.title = args[c].title
       /\ log[c][2].body.body.storage.value = args[c].content
       /\ log[c][2].body.body.storage.representation = "storage"

\* the PUT of an updatePage call waits for the service
C2_Witness ==
  \E c \in AllCallers : pc[c] = "updatePage_put" /\ InFlight(c)

\* the path of a request url: what precedes the "?" of the query string
RECURSIVE PathOf(_)
PathOf(url) ==
  IF url = <<>> \/ Head(url) = "?" THEN <<>> ELSE <<Head(url)>> \o PathOf(Tail(url))

Succeeded(outcome) == outcome.kind = "response" /\ outcome.ok
HasReturned(c) == pc[c] = "done" /\ result[c].kind = "return"
HasThrown(c) == pc[c] = "done" /\ result[c].kind = "throw"

\* (The PUT's acknowledgement carries no body and no space reference, so the
\* last two conjuncts tell the two responses apart.)
\* C3: a successful updatePage has issued exactly GET, PUT, GET on
\* /rest/api/content/{id}; a PUT is only ever issued after the first GET has
\* succeeded, with space.key the spaceKey normalized from that GET; the Page
\* returned is the normalization of the last GET's response, not the PUT's.
C3_UpdateProtocol ==
  \A c \in AllCallers :
    /\ PutIssued(c) =>
         /\ Len(resps[c]) >= 1 /\ Succeeded(resps[c][1])
         /\ log[c][2].method = "PUT"
         /\ log[c][2].body.space.key = SplitPop(resps[c][1].json.expandableSpace)
    /\ (Updating(c) /\ HasReturned(c)) =>
         /\ Len(log[c]) = 3
         /\ [i \in 1..3 |-> log[c][i].method] = <<"GET", "PUT", "GET">>
         /\ \A i \in 1..3 : PathOf(log[c][i].url) = ContentPath \o <<"/", args[c].pageId>>
         /\ \A i \in 1..3 : Succeeded(resps[c][i])
         /\ result[c].value.version = resps[c][3].json.version
         /\ result[c].value.title = resps[c][3].json.title
         /\ result[c].value.spaceKey = log[c][2].body.space.key
         /\ result[c].value.content # <<>>

\* an updatePage call has returned its Page
C3_Witness ==
  \E c \in AllCallers : Updating(c) /\ HasReturned(c) /\ Len(log[c]) = 3

Creating(c) == args[c].op = "createPage"

\* C4: a successful createPage has issued exactly POST /rest/api/content and
\* then GET /rest/api/content/{id} with the id the POST returned; the GET is
\* only issued once the POST has succeeded, never while it is in flight; the
\* Page returned is the normalization of the GET's response.
C4_CreateProtocol ==
  \A c \in AllCallers :
    /\ Len(log[c]) <= Len(resps[c]) + 1
    /\ (Creating(c) /\ Len(log[c]) >= 2) =>
         /\ Len(resps[c]) >= 1 /\ Succeeded(resps[c][1])
         /\ log[c][2].method = "GET"
         /\ PathOf(log[c][2].url) = ContentPath \o <<"/", resps[c][1].json.id>>
    /\ (Creating(c) /\ HasReturned(c)) =>
         /\ Len(log[c]) = 2
         /\ log[c][1].method = "POST" /\ log[c][1].url = ContentPath
         /\ Succeeded(resps[c][2])
         /\ result[c].value.id = resps[c][2].json.id
         /\ result[c].value.title = resps[c][2].json.title
         /\ result[c].value.version = resps[c][2].json.version

\* a createPage call under a parent page has returned its Page
C4_Witness ==
  \E c \in AllCallers : Creating(c) /\ HasReturned(c) /\ args[c].parentId = "p1"

\* the follow-up GET of a createPage call has failed after its POST succeeded
RefetchFailed(c) ==
  /\ Creating(c) /\ Len(resps[c]) >= 2
  /\ Succeeded(resps[c][1]) /\ ~Succeeded(resps[c][2])

\* C5: when the POST of createPage succeeds and the follow-up GET fails, the
\* call throws the GET's error (the rejection's cause, or the error of the
\* GET's status), no request follows the failed GET, and the page the POST
\* created is still on the service.
C5_PartialCreate ==
  \A c \in AllCallers :
    RefetchFailed(c) =>
      /\ Len(log[c]) = 2
      /\ resps[c][1].json.id \in DOMAIN pages
      /\ pc[c] \in {"createPage_get", "done", "replied"}
      /\ pc[c] = "done" =>
           /\ result[c].kind = "throw"
           /\ resps[c][2].kind = "reject" => result[c].error = resps[c][2].cause
           /\ (resps[c][2].kind = "response" /\ resps[c][2].status = 404) =>
                Head(result[c].error.message) = "Content not found: "
           /\ (resps[c][2].kind = "response" /\ resps[c][2].status # 404) =>
                /\ Head(result[c].error.message) = "Confluence API Error: "
                /\ result[c].error.message[4] = NumText(resps[c][2].status)

\* createPage has thrown after its POST succeeded and its GET failed
C5_Witness ==
  \E c \in AllCallers : RefetchFailed(c) /\ HasThrown(c)

\* the last request of the call was answered with a non-success status
Refused(c) ==
  /\ Len(resps[c]) >= 1
  /\ LastOutcome(c).kind = "response" /\ ~LastOutcome(c).ok
NotFoundPrefix == "Content not found: "
ApiErrorPrefix == "Confluence API Error: "

\* C6: a 404 response to getPage(id) yields the content-not-found failure whose
\* resource id is exactly id: nothing of the query string or of a further path.
C6_NotFoundCarriesId ==
  \A c \in AllCallers :
    (args[c].op = "getPage" /\ HasThrown(c) /\ Refused(c) /\ LastOutcome(c).status = 404)
      => result[c].error.message = <<NotFoundPrefix, args[c].pageId>>

\* C7: a 404 response to the search request of searchPages is not reported as
\* content-not-found; the call fails with the generic API error that carries
\* the service-supplied message.
C7_SearchNotFoundIsGeneric ==
  \A c \in AllCallers :
    (args[c].op = "searchPages" /\ HasThrown(c) /\ Refused(c)
       /\ LastOutcome(c).status = 404)
      => /\ Head(result[c].error.message) = ApiErrorPrefix
         /\ (LastOutcome(c).parseable /\ LastOutcome(c).json.message # "")
              => result[c].error.message[2] = LastOutcome(c).json.message

\* the POST of createPage was answered 400 with a JSON body {message: m}
PostRejected400(c) ==
  /\ Creating(c) /\ HasThrown(c) /\ Len(resps[c]) = 1 /\ Refused(c)
  /\ LastOutcome(c).status = 400
  /\ LastOutcome(c).parseable /\ LastOutcome(c).json.message # ""

\* C8 (as stated): when the POST of createPage is answered 400 with a JSON body
\* {message: m}, the error raised has exactly m as its message.
C8_MessageExactlyM ==
  \A c \in AllCallers :
    PostRejected400(c) => result[c].error.message = <<LastOutcome(c).json.message>>

\* C8 (amended): when the POST of createPage is answered 400 with a JSON body
\* {message: m}, m not empty, the Error raised has the message
\* 'Confluence API Error: ' m ' (Status: 400)': m between a fixed prefix and
\* the status suffix, the status 400 being part of the message text.
C8_MessageEmbedsM ==
  \A c \in AllCallers :
    PostRejected400(c) =>
      /\ result[c].error.name = "Error"
      /\ result[c].error.message =
           <<ApiErrorPrefix, LastOutcome(c).json.message, " (Status: ", "400", ")">>

\* createPage has thrown on a 400 that carries {message: 'Space not found'}
C8_Witness ==
  \E c \in AllCallers :
    PostRejected400(c) /\ LastOutcome(c).json.message = "Space not found"

\* C9: a non-success response that is not reported as content-not-found makes
\* the call throw an error that carries the body's message, else its
\* errorMessage, or the status text when the body is absent or not JSON, and
\* always the numeric status code.
C9_MessageAndStatus ==
  \A c \in AllCallers :
    (HasThrown(c) /\ Refused(c) /\ Head(result[c].error.message) # NotFoundPrefix) =>
      LET r == LastOutcome(c)
          m == result[c].error.message
      IN  /\ Len(m) = 5
          /\ m[4] = NumText(r.status)
          /\ (r.parseable /\ r.json.message # "") => m[2] = r.json.message
          /\ (r.parseable /\ r.json.message = "" /\ r.json.errorMessage # "")
               => m[2] = r.json.errorMessage
          /\ ~r.parseable => m[2] = r.statusText

\* updatePage has thrown on a 500 answer to its PUT whose body is not JSON
C9_Witness ==
  \E c \in AllCallers :
    /\ HasThrown(c) /\ Refused(c) /\ Head(result[c].error.message) # NotFoundPrefix
    /\ ~LastOutcome(c).parseable
    /\ LastOutcome(c).status = 500
    /\ args[c].op = "updatePage" /\ Len(log[c]) = 2

\* C10: when fetch itself rejects, the call throws that very failure: its
\* message is the cause's, it carries no status code, it is neither the
\* content-not-found nor the API error of a response, and no request follows.
C10_RejectionPropagates ==
  \A c \in AllCallers :
    \A i \in 1..Len(resps[c]) :
      resps[c][i].kind = "reject" =>
        /\ i = Len(resps[c]) /\ Len(log[c]) = i
        /\ pc[c] = "done" =>
             /\ result[c].kind = "throw"
             /\ result[c].error = resps[c][i].cause
             /\ Len(result[c].error.message) = 1
             /\ Head(result[c].error.message) \in Causes

\* a call has thrown the rejection of the fetch of its PUT
C10_Witness ==
  \E c \in AllCallers :
    /\ HasThrown(c) /\ Len(resps[c]) = 2 /\ LastOutcome(c).kind = "reject"
    /\ LastRequest(c).method = "PUT"

\* the number of requests an operation awaits, one after the other
RequestsOf(op) ==
  CASE op = "updatePage" -> 3
    [] op = "createPage" -> 2
    [] op = "" -> 0
    [] OTHER -> 1

\* C11: no operation retries or swallows a failure: a request that fails
\* (non-success status or rejected fetch) is the last one the operation
\* issues, the operation then throws, an operation that returned an entity
\* had every request succeed, and no operation issues more requests than its
\* protocol has steps.
C11_FailFast ==
  \A c \in AllCallers :
    /\ \A i \in 1..Len(resps[c]) :
         ~Succeeded(resps[c][i]) =>
           /\ i = Len(resps[c]) /\ Len(log[c]) = i
           /\ pc[c] = "done" => result[c].kind = "throw"
    /\ HasReturned(c) => \A i \in 1..Len(resps[c]) : Succeeded(resps[c][i])
    /\ Len(log[c]) <= RequestsOf(args[c].op)

\* updatePage has thrown after its initial GET failed, without a PUT
C11_Witness ==
  \E c \in AllCallers :
    /\ Updating(c) /\ HasThrown(c)
    /\ Len(log[c]) = 1 /\ ~Succeeded(resps[c][1])

\* ------------------------------------------------ the normalizer on its own
\* raw page payloads: every combination of the optional parts of a page
MaxAncestors == 3
AncestorIds == <<"g1", "g2", "g3", "g4", "g5">>
SpaceRefs ==
  {<<>>, SpacePath \o <<"TEST">>, SpacePath \o <<"~", "jdoe">>, <<"TEST">>, SpacePath}
Chains == {[i \in 1..n |-> [id |-> AncestorIds[i]]] : n \in 0..MaxAncestors}
Bodies ==
  {<<>>, OldMarkup,
   <<"<p>", "This", " ", "&amp;", " ", "that", "</p>">>,
   <<"<h1>", "T", "</h1>", "\n", "<p>", "a", "&nbsp;", "b", "</p>">>}
LabelLists ==
  {<<>>, <<[name |-> "draft", id |-> "l1"]>>,
   <<[name |-> "draft", id |-> "l1"], [name |-> "draft", id |-> "l2"]>>,
   <<[name |-> "draft", id |-> "l1"], [name |-> "final", id |-> "l2"]>>,
   <<[name |-> "draft", id |-> "l1"], [name |-> "final", id |-> "l1"]>>}
RawPayloads ==
  {[id |-> "p1", title |-> OldTitle, expandableSpace |-> s, version |-> v,
    body |-> b, ancestors |-> a, labels |-> l] :
     s \in SpaceRefs, v \in {0, 2}, b \in Bodies, a \in Chains, l \in LabelLists}

InitClean ==
  /\ headers = <<>>
  /\ pages = <<>>
  /\ \E raw \in RawPayloads :
       args = [c \in AllCallers |->
                 IF c \in Callers THEN [op |-> "cleanPage", page |-> raw] ELSE NoArgs]
  /\ pc = [c \in AllCallers |-> IF c \in Callers THEN "input" ELSE "idle"]
  /\ log = [c \in AllCallers |-> <<>>]
  /\ resps = [c \in AllCallers |-> <<>>]
  /\ result = [c \in AllCallers |-> NoResult]

\* this.cleanPage(page)
cleanPageCall(c) ==
  /\ pc[c] = "input" /\ args[c].op = "cleanPage"
  /\ result' = [result EXCEPT ![c] = Returned(cleanPage(args[c].page))]
  /\ pc' = [pc EXCEPT ![c] = "output"]
  /\ UNCHANGED <<headers, pages, args, log, resps>>

NextClean == \E c \in Callers : cleanPageCall(c)
SpecClean == InitClean /\ [][NextClean]_vars

\* a page has been normalized
Cleaned(c) == pc[c] = "output" /\ args[c].op = "cleanPage"

\* C12: the normalized spaceKey is the last "/"-separated segment of the
\* expandable space reference (the "/"-free end of the reference that starts
\* the reference or follows a "/"), and is empty when the reference is absent.
C12_SpaceKeyIsLastSegment ==
  \A c \in AllCallers :
    Cleaned(c) =>
      LET r == args[c].page.expandableSpace
          k == result[c].value.spaceKey
      IN  /\ Len(k) <= Len(r)
          /\ SubSeq(r, Len(r) - Len(k) + 1, Len(r)) = k
          /\ \A i \in 1..Len(k) : k[i] # "/"
          /\ Len(k) < Len(r) => r[Len(r) - Len(k)] = "/"
          /\ r = <<>> => k = <<>>

\* a reference with several segments has been reduced to a two-token key
C12_Witness ==
  \E c \in AllCallers :
    /\ Cleaned(c)
    /\ args[c].page.expandableSpace = SpacePath \o <<"~", "jdoe">>
    /\ result[c].value.spaceKey = <<"~", "jdoe">>

\* C13: parentId is the id of the last element of the ancestor chain, however
\* long the chain; it is absent when the chain is empty or missing, and it is
\* never the id of another ancestor.
C13_ParentIsNearestAncestor ==
  \A c \in AllCallers :
    Cleaned(c) =>
      LET a == args[c].page.ancestors
          p == result[c].value.parentId
      IN  /\ a = <<>> <=> p = Undefined
          /\ a # <<>> => p = a[Len(a)].id
          /\ \A i \in 1..(Len(a) - 1) : p # a[i].id

\* a chain of several ancestors has been reduced to its nearest one
C13_Witness ==
  \E c \in AllCallers :
    /\ Cleaned(c)
    /\ Len(args[c].page.ancestors) = MaxAncestors
    /\ result[c].value.parentId = AncestorIds[MaxAncestors]

\* --------------------------------------------------- truncation on its own
MaxTextLen == 5
Chars == {"a", " ", "\n"}
Texts == UNION {[1..n -> Chars] : n \in 0..MaxTextLen}
\* the maxLength argument; omitted, it is the default
MaxLengths == (0..MaxTextLen) \cup {DefaultMaxLength}

InitTruncate ==
  /\ headers = <<>>
  /\ pages = <<>>
  /\ \E s \in Texts, n \in MaxLengths :
       args = [c \in AllCallers |->
                 IF c \in Callers
                   THEN [op |-> "truncateContent", content |-> s, maxLength |-> n,
                         history |-> <<>>]
                   ELSE NoArgs]
  /\ pc = [c \in AllCallers |-> IF c \in Callers THEN "input" ELSE "idle"]
  /\ log = [c \in AllCallers |-> <<>>]
  /\ resps = [c \in AllCallers |-> <<>>]
  /\ result = [c \in AllCallers |-> NoResult]

\* truncateContent(content, maxLength)
truncateContentCall(c) ==
  /\ pc[c] = "input" /\ args[c].op = "truncateContent"
  /\ result' = [result EXCEPT
                  ![c] = Returned(truncateContent(args[c].content, args[c].maxLength))]
  /\ pc' = [pc EXCEPT ![c] = "output"]
  /\ UNCHANGED <<headers, pages, args, log, resps>>

\* the result is given to truncateContent again, with the same maxLength
truncateContentAgain(c) ==
  /\ pc[c] = "output" /\ args[c].op = "truncateContent" /\ args[c].history = <<>>
  /\ args' = [args EXCEPT ![c].content = result[c].value,
                          ![c].history = <<args[c].content>>]
  /\ result' = [result EXCEPT ![c] = NoResult]
  /\ pc' = [pc EXCEPT ![c] = "input"]
  /\ UNCHANGED <<headers, pages, log, resps>>

NextTruncate == \E c \in Callers : truncateContentCall(c) \/ truncateContentAgain(c)
SpecTruncate == InitTruncate /\ [][NextTruncate]_vars

\* truncateContent has returned; and it has returned for its own result
Truncated(c) == pc[c] = "output" /\ args[c].op = "truncateContent"
TruncatedTwice(c) == Truncated(c) /\ args[c].history # <<>>

\* C14 as stated: truncating the result of a truncation again changes nothing.
C14_Idempotent ==
  \A c \in AllCallers :
    TruncatedTwice(c) => result[c].value = args[c].content

\* C14: a second truncation with the same maxLength changes nothing exactly
\* when the first result is no longer than maxLength; a first result that is
\* longer (a cut at a space less than three characters before maxLength, plus
\* the ellipsis) is cut again.
C14_IdempotentIffFits ==
  \A c \in AllCallers :
    TruncatedTwice(c) =>
      (result[c].value = args[c].content
         <=> Len(args[c].content) <= args[c].maxLength)

\* a text has been cut with an ellipsis, and the second truncation kept it
C14_Witness ==
  \E c \in AllCallers :
    /\ TruncatedTwice(c)
    /\ args[c].content # args[c].history[1]
    /\ Len(args[c].content) = args[c].maxLength
    /\ result[c].value = args[c].content

\* what C15 states, for a given set of boundary characters
CutAtLast(boundary, text, maxLength, out) ==
  LET at == {i \in 1..Len(text) : i - 1 <= maxLength /\ text[i] \in boundary}
  IN  IF Len(text) <= maxLength THEN out = text
      ELSE IF at = {} THEN out = SubSeq(text, 1, maxLength)
      ELSE \E b \in at :
             /\ \A i \in at : i <= b
             /\ out = SubSeq(text, 1, b - 1) \o Ellipsis

MaxItems == 2
\* the markup of the items of a list: plain or inline-formatted text on one
\* line, and items that hold a paragraph or span two lines
InlineItems == {<<"A">>, <<"B", " ", "c">>, <<"<strong>", "A", "</strong>">>}
BlockItems == {<<"<p>", "A", "</p>">>, <<"A", "\n", "B">>}
ItemLists == UNION {[1..n -> InlineItems \cup BlockItems] : n \in 1..MaxItems}
\* what stands between the tags of a list: nothing, a line break, or a line
\* break and indentation
Separators == {<<>>, <<"\n">>, <<"\n", " ">>}
ListTags == {<<"<ul>", "</ul>">>, <<"<ol>", "</ol>">>}

RECURSIVE ItemsMarkup(_, _)
ItemsMarkup(items, sep) ==
  IF items = <<>> THEN <<>>
  ELSE <<"<li>">> \o Head(items) \o <<"</li>">> \o sep \o ItemsMarkup(Tail(items), sep)

ListMarkup(tags, items, sep) ==
  <<tags[1]>> \o sep \o ItemsMarkup(items, sep) \o <<tags[2]>>

\* a heading, what stands after it, and a paragraph with bold text
HeadingLevels == 1..6
Paragraph == <<"<p>", "Hello", " ", "<strong>", "world", "</strong>", "</p>">>
HeadingMarkup(level, sep) ==
  <<HeadingRule(level).close>> \o sep \o Paragraph
HeadingDoc(level, sep) ==
  <<CHOOSE t \in HeadingRule(level).opens : TRUE, "Title">> \o HeadingMarkup(level, sep)

\* markups with tags no replacement knows and with '<' and '>' characters
\* that belong to no tag
StrayMarkups ==
  {<<"1", " ", "<", " ", "2", " ", ">", " ", "0">>,
   <<"a", ">", "b", "<", "c">>,
   <<"<", " ", "<p>", "x", "</p>">>,
   <<"<span>", "x", "</span>", "<", "y">>,
   <<"<", "<b>", "x", "</b>", ">">>,
   <<"x", "<", "\n", "<h1>", "T", "</h1>", "y", ">", "z">>,
   <<"<li>", "x", "\n", "</li>", "<", "<", ">", ">">>,
   <<"<ac:macro>", "x", "</ac:macro>">>}
Markups ==
  {ListMarkup(t, items, sep) : t \in ListTags, items \in ItemLists, sep \in Separators}
    \cup {HeadingDoc(level, sep) : level \in HeadingLevels, sep \in Separators}
    \cup StrayMarkups
    \cup {<<>>}

InitMarkdown ==
  /\ headers = <<>>
  /\ pages = <<>>
  /\ \E m \in Markups :
       args = [c \in AllCallers |->
                 IF c \in Callers THEN [op |-> "storageFormatToMarkdown", markup |-> m]
                 ELSE NoArgs]
  /\ pc = [c \in AllCallers |-> IF c \in Callers THEN "input" ELSE "idle"]
  /\ log = [c \in AllCallers |-> <<>>]
  /\ resps = [c \in AllCallers |-> <<>>]
  /\ result = [c \in AllCallers |-> NoResult]

\* storageFormatToMarkdown(storageFormat)
storageFormatToMarkdownCall(c) ==
  /\ pc[c] = "input" /\ args[c].op = "storageFormatToMarkdown"
  /\ result' = [result EXCEPT ![c] = Returned(storageFormatToMarkdown(args[c].markup))]
  /\ pc' = [pc EXCEPT ![c] = "output"]
  /\ UNCHANGED <<headers, pages, args, log, resps>>

NextMarkdown == \E c \in Callers : storageFormatToMarkdownCall(c)
SpecMarkdown == InitMarkdown /\ [][NextMarkdown]_vars

\* a markup has been converted
Converted(c) == pc[c] = "output" /\ args[c].op = "storageFormatToMarkdown"

\* the lines of a text
RECURSIVE Lines(_)
Lines(s) ==
  LET breaks == {i \in 1..Len(s) : s[i] = "\n"}
  IN  IF breaks = {} THEN <<s>>
      ELSE LET i == CHOOSE k \in breaks : \A m \in breaks : k <= m
           IN  <<SubSeq(s, 1, i - 1)>> \o Lines(SubSeq(s, i + 1, Len(s)))

\* the lines that begin with the list marker
BulletLines(s) == SelectSeq(Lines(s), LAMBDA l : l # <<>> /\ l[1] = "- ")
\* t occurs in line
Contains(line, t) ==
  \E k \in 0..(Len(line) - Len(t)) : SubSeq(line, k + 1, k + Len(t)) = t
\* the text of an item: its markup without the tags
ItemText(item) == SelectSeq(item, LAMBDA x : x \notin Tags)

\* the example markup of C16
Example == HeadingDoc(1, <<>>)
ParagraphText == <<"Hello", " ", "**", "world", "**">>

\* C16 as stated: the heading of the example is followed by a line break.
C16_ExampleHasLineBreak ==
  \A c \in AllCallers :
    Converted(c) /\ args[c].markup = Example =>
      result[c].value = <<"# ", "Title", "\n">> \o ParagraphText

\* C16: the example converts to "# TitleHello **world**": the heading
\* replacement adds no line break, so the text of a heading and of the
\* paragraph that immediately follows run together on one line; they are on
\* separate lines only when the markup has a line break between them, and
\* any whitespace of the markup after that line break is kept.
C16_HeadingRunsIntoParagraph ==
  \A c \in AllCallers :
    Converted(c) =>
      /\ args[c].markup = Example =>
           result[c].value = <<"# ", "Title">> \o ParagraphText
      /\ \A level \in HeadingLevels, sep \in Separators :
           args[c].markup = HeadingDoc(level, sep) =>
             result[c].value = HeadingRule(level).pre \o <<"Title">> \o sep \o ParagraphText

\* the example has been converted and its first line holds both texts
C16_Witness ==
  \E c \in AllCallers :
    /\ Converted(c) /\ args[c].markup = Example
    /\ Lines(result[c].value) = <<(<<"# ", "Title">> \o ParagraphText)>>

\* every item has its own line that begins with the marker, in order
ItemsAsLines(items, out) ==
  /\ Len(BulletLines(out)) = Len(items)
  /\ \A i \in 1..Len(items) : Contains(BulletLines(out)[i], ItemText(items[i]))

\* C17 as stated: every item of every list is on a line beginning with "- ".
C17_EveryItemIsALine ==
  \A c \in AllCallers :
    Converted(c) =>
      \A t \in ListTags, items \in ItemLists, sep \in Separators :
        args[c].markup = ListMarkup(t, items, sep) => ItemsAsLines(items, result[c].value)

\* C17: the items of an unordered or ordered list are rendered as lines
\* beginning with "- ", in the original order, when every item is inline
\* markup on a single line and no indentation precedes the <li> tags. An item
\* that holds a paragraph or spans lines gets no marker, and indentation
\* before <li> stays in front of the marker.
C17_InlineItemsAreLines ==
  \A c \in AllCallers :
    Converted(c) =>
      \A t \in ListTags, items \in ItemLists, sep \in {<<>>, <<"\n">>} :
        /\ args[c].markup = ListMarkup(t, items, sep)
        /\ \A i \in 1..Len(items) : items[i] \in InlineItems
        => /\ ItemsAsLines(items, result[c].value)
           /\ \A i \in 1..Len(items) :
                BulletLines(result[c].value)[i]
                  = <<"- ">> \o storageFormatToMarkdown(items[i])

\* an ordered list of MaxItems inline items on separate lines has been
\* converted, and each item is a "- " line
C17_Witness ==
  \E c \in AllCallers, items \in ItemLists :
    /\ Converted(c) /\ Len(items) = MaxItems
    /\ \A i \in 1..Len(items) : items[i] \in InlineItems
    /\ args[c].markup = ListMarkup(<<"<ol>", "</ol>">>, items, <<"\n">>)
    /\ Len(BulletLines(result[c].value)) = MaxItems

\* C18: the normalized content of every raw page payload is the transcoder's
\* plain-text extraction (extractTextFromStorage) of the payload's body, and
\* is empty when the body is absent.
C18_ContentIsPlainTextExtraction ==
  \A c \in AllCallers :
    Cleaned(c) =>
      result[c].value.content = extractTextFromStorage(args[c].page.body)

\* searchPages has settled after a successful response; the items of that
\* response; an item that is a page
Searched(c) ==
  /\ args[c].op = "searchPages" /\ pc[c] = "done"
  /\ Len(resps[c]) = 1 /\ Succeeded(resps[c][1])
SearchItems(c) == Results(resps[c][1].json)
WellFormed(item) == item # Null /\ item # Sparse

Replied(c) ==
  /\ pc[c] = "replied" /\ args[c].tool = "search_pages"
  /\ ~result[c].isError
\* the total size the service reported to this caller, if any
Reported(c) == resps[c][1].json

\* C20: searchPages reports total as the totalSize of the service's response
\* (0 when there is none) whatever the number of pages it returns; the
\* search_pages tool returns the first pages up to limit (10 when omitted),
\* its returned field is the number of pages in its output, and its total is
\* the service's total unchanged.
C20_TotalAndLimit ==
  \A c \in AllCallers :
    /\ Searched(c) /\ result[c].kind = "return" =>
         /\ "totalSize" \in DOMAIN Reported(c) =>
              result[c].value.total = Reported(c).totalSize
         /\ "totalSize" \notin DOMAIN Reported(c) => result[c].value.total = 0
    /\ Replied(c) =>
         /\ Len(result[c].pages) <= (IF args[c].limit = <<>> THEN 10 ELSE args[c].limit[1])
         /\ \/ Len(result[c].pages) = Len(SearchItems(c))
            \/ Len(result[c].pages) = (IF args[c].limit = <<>> THEN 10 ELSE args[c].limit[1])
         /\ \A i \in 1..Len(result[c].pages) :
              result[c].pages[i].id = SearchItems(c)[i].id
         /\ result[c].returned = Len(result[c].pages)
         /\ "totalSize" \in DOMAIN Reported(c) => result[c].total = Reported(c).totalSize
         /\ "totalSize" \notin DOMAIN Reported(c) => result[c].total = 0

\* the tool has cut a longer result list to its limit, and the total it
\* reports is the service's, greater than the number of pages returned
C20_Witness ==
  \E c \in AllCallers :
    /\ Replied(c) /\ args[c].limit # <<>>
    /\ Len(SearchItems(c)) > args[c].limit[1]
    /\ result[c].returned = args[c].limit[1] /\ result[c].returned > 0
    /\ result[c].total > result[c].returned

\* no two labels of the list have the same id
UniqueById(labels) ==
  \A i, j \in 1..Len(labels) : labels[i].id = labels[j].id => i = j

\* C21 as stated: the labels of every normalized page are unique by id.
C21_LabelsUniqueById ==
  \A c \in AllCallers :
    Cleaned(c) => UniqueById(result[c].value.labels)

\* C21: the normalized labels are the service's labels one for one, as
\* (name, id) pairs in the service's order; nothing is removed, so two labels
\* with the same name and different ids are both kept, and the list is unique
\* by id exactly when the service's list is.
C21_LabelsAsServed ==
  \A c \in AllCallers :
    Cleaned(c) =>
      LET raw == args[c].page.labels
          labels == result[c].value.labels
      IN  /\ Len(labels) = Len(raw)
          /\ \A i \in 1..Len(raw) :
               labels[i].id = raw[i].id /\ labels[i].name = raw[i].name
          /\ UniqueById(labels) <=> UniqueById(raw)

\* two labels with one name and two ids have both been kept
C21_Witness ==
  \E c \in AllCallers :
    /\ Cleaned(c)
    /\ Len(result[c].value.labels) = 2
    /\ result[c].value.labels[1].name = result[c].value.labels[2].name
    /\ result[c].value.labels[1].id # result[c].value.labels[2].id

\* a step that changes the version of a page is the service accepting the
\* PUT of an updatePage call, and raises the version by one; no page vanishes
VersionStep ==
  \A id \in DOMAIN pages :
    /\ id \in DOMAIN pages'
    /\ pages'[id].version # pages[id].version =>
         /\ pages'[id].version = pages[id].version + 1
         /\ \E c \in AllCallers :
              /\ Updating(c) /\ pc[c] = "updatePage_put" /\ InFlight(c)
              /\ LastRequest(c).method = "PUT" /\ args[c].pageId = id
              /\ Len(resps'[c]) = Len(resps[c]) + 1
              /\ Succeeded(resps'[c][Len(resps'[c])])
\* updatePage has read its page; its PUT has been accepted
HasRead(c) == Updating(c) /\ Len(resps[c]) >= 1 /\ Succeeded(resps[c][1])
PutAccepted(c) == HasRead(c) /\ Len(resps[c]) >= 2 /\ Succeeded(resps[c][2])

\* C22 as stated: versions change only by one, only through the PUT of an
\* updatePage; a successful updatePage leaves the version one above the one
\* it read, and a failed updatePage leaves it as read.
C22_FailedCallsChangeNothing ==
  /\ [][VersionStep]_vars
  /\ [](\A c \in Callers :
          /\ (HasRead(c) /\ HasReturned(c)) =>
               pages[args[c].pageId].version = ReadVersion(c) + 1
          /\ (HasRead(c) /\ HasThrown(c)) =>
               pages[args[c].pageId].version = ReadVersion(c))

\* C22: the version of a page never decreases and changes only when the
\* service accepts the PUT of an updatePage, by exactly one; reads, creations
\* and calls that fail before their PUT is accepted leave every version
\* unchanged. An updatePage whose PUT was accepted has raised the version by
\* one whether it then returns or fails on its re-fetch.
C22_VersionFollowsAcceptedPut ==
  /\ [][VersionStep]_vars
  /\ [](\A c \in Callers :
          HasRead(c) =>
            pages[args[c].pageId].version
              = ReadVersion(c) + (IF PutAccepted(c) THEN 1 ELSE 0))

\* an updatePage call has failed on its re-fetch after its PUT was accepted:
\* the call threw and the version is one above the version it read
C22_Witness ==
  \E c \in Callers :
    /\ PutAccepted(c) /\ HasThrown(c) /\ Len(resps[c]) = 3
    /\ pages[args[c].pageId].version = ReadVersion(c) + 1

\* updatePage was given a version other than the one its first GET returned
Stale(c) == HasRead(c) /\ args[c].version # ReadVersion(c)

PageReplied(c) ==
  /\ pc[c] = "replied" /\ args[c].tool = "get_page"
  /\ ~result[c].isError

\* C24 as stated: with includeMarkup the response of get_page has a
\* contentMarkup field equal to the storage-format markup the service returned
\* for the page; without includeMarkup it has no contentMarkup field.
C24_MarkupOnRequest ==
  \A c \in AllCallers :
    PageReplied(c) =>
      /\ args[c].includeMarkup =>
           /\ "contentMarkup" \in DOMAIN result[c].page
           /\ result[c].page.contentMarkup = resps[c][1].json.body
      /\ ~args[c].includeMarkup => "contentMarkup" \notin DOMAIN result[c].page

\* the registered tools, and the text each handler puts before the message
\* of the error it caught
Tools ==
  {"get_page", "search_pages", "get_spaces", "create_page", "update_page",
   "get_comments", "add_comment", "get_attachments", "add_attachment"}
Prefix(tool) ==
  CASE tool = "get_page" -> "Error retrieving page: "
    [] tool = "search_pages" -> "Error searching pages: "
    [] tool = "get_spaces" -> "Error retrieving spaces: "
    [] tool = "create_page" -> "Failed to create page: "
    [] tool = "update_page" -> "Error updating page: "
    [] tool = "get_comments" -> "Error retrieving comments: "
    [] tool = "add_comment" -> "Error adding comment: "
    [] tool = "get_attachments" -> "Error retrieving attachments: "
    [] tool = "add_attachment" -> "Error adding attachment: "
\* the operation awaited by a tool handler has thrown
ToolThrown(c) == pc[c] = "done" /\ args[c].tool \in Tools /\ result[c].kind = "throw"
\* the only step of a handler whose operation threw is an error reply that
\* holds the message of the error
ErrorReplyStep ==
  \A c \in AllCallers :
    ToolThrown(c) /\ <<pc[c], result[c]>> # <<pc'[c], result'[c]>> =>
      /\ pc'[c] = "replied" /\ result'[c].kind = "reply"
      /\ result'[c].isError
      /\ result'[c].text = <<Prefix(args[c].tool)>> \o result[c].error.message
      /\ Contains(result'[c].text, result[c].error.message)

\* C25: when the operation behind a registered tool throws, the handler
\* returns (it does not throw) a result with isError = TRUE whose text is the
\* handler's prefix followed by the message of the thrown error; the reply
\* can always be delivered, after which the caller is idle again and any
\* tool can be called.
C25_HandlersReportErrors ==
  /\ [][ErrorReplyStep]_vars
  /\ [](\A c \in Callers :
          /\ ToolThrown(c) =>
               ENABLED (Next /\ pc'[c] = "replied")
          /\ pc[c] = "replied" => ENABLED Finish(c)
          /\ pc[c] = "idle" => ENABLED get_page(c, "p1", "", FALSE))

\* update_page has answered with the error of a PUT the service refused
C25_Witness ==
  \E c \in Callers :
    /\ pc[c] = "replied" /\ args[c].tool = "update_page" /\ result[c].isError
    /\ Len(resps[c]) = 2 /\ ~Succeeded(resps[c][2])
    /\ result[c].text[1] = "Error updating page: "
    /\ Len(result[c].text) > 1

\* the token holds a '<'
StartsTag(x) == x = "<" \/ x \in Tags
\* the text has a '<' with a '>' somewhere after it
HasTag(s) == \E i, j \in 1..Len(s) : i <= j /\ StartsTag(s[i]) /\ EndsTag(s[j])

\* C26: the output of storageFormatToMarkdown has no '<' that a '>' follows,
\* whether the input's tags are ones a replacement knows or not.
C26_NoTagInOutput ==
  \A c \in AllCallers : Converted(c) => ~HasTag(result[c].value)

\* a markup with a '<' and a later '>' outside any known tag has been
\* converted, and text of it is left
C26_Witness ==
  \E c \in AllCallers :
    /\ Converted(c) /\ args[c].markup \in StrayMarkups
    /\ \E i, j \in 1..Len(args[c].markup) :
         i < j /\ args[c].markup[i] = "<" /\ args[c].markup[j] = ">"
    /\ result[c].value # <<>>

\* the Authorization values of the credentials: "Basic " and the base64 of
\* a@b:t1 and of me:k
Authorizations ==
  {<<"Basic ", "Y", "U", "B", "i", "O", "n", "Q", "x">>,
   <<"Basic ", "b", "W", "U", "6", "a", "w", "=", "=">>}

\* C27: the headers of the service never change after construction, and every
\* request of every operation carries exactly them: Authorization ("Basic "
\* and the base64 of email:apiToken), Accept and Content-Type, whatever the
\* method and the options of the request.
C27_HeadersOnEveryRequest ==
  /\ [][headers' = headers]_vars
  /\ [](/\ \E cred \in Credentials : headers = constructor(cred.email, cred.apiToken)
        /\ headers.Authorization \in Authorizations
        /\ \A c \in AllCallers : \A i \in 1..Len(log[c]) :
             /\ log[c][i].headers = headers
             /\ DOMAIN log[c][i].headers = {"Authorization", "Accept", "Content-Type"})

\* an updatePage call has issued its GET, its PUT and its second GET with the
\* headers of a service constructed with me:k
C27_Witness ==
  \E c \in Callers :
    /\ Updating(c) /\ Len(log[c]) = 3
    /\ log[c][2].method = "PUT" /\ log[c][2].body # NoBody
    /\ \A i \in 1..3 :
         log[c][i].headers.Authorization
           = <<"Basic ", "b", "W", "U", "6", "a", "w", "=", "=">>

\* ------------------------------------------------------- concurrent callers
\* Two callers use the one service instance at the same time: each makes one
\* createPage or updatePage call, and their requests are served in any order.
\* the title each caller passes
TitleOf(c) == IF c = "a" THEN NewTitle ELSE "Other Page"
Conflict == [parseable |-> TRUE, message |-> "Version conflict", errorMessage |-> ""]

NextConcurrent ==
  \E c \in AllCallers :
    \/ \E k \in {<<"TEST">>, <<"DEV">>} : createPage(c, k, TitleOf(c), NewMarkup, "")
    \/ createPagePosted(c)
    \/ createPageDone(c)
    \/ \E id \in {"p1", NewIds[1]}, v \in 1..MaxVersion :
         updatePage(c, id, TitleOf(c), NewMarkup, v)
    \/ updatePageRead(c)
    \/ updatePageWritten(c)
    \/ updatePageDone(c)
    \/ ServeGet(c)
    \/ ServePost(c)
    \/ ServePut(c)
    \/ ServeError(c, 400, Conflict)

SpecConcurrent == Init /\ [][NextConcurrent]_vars

\* cleanPage of the i-th response the caller got
Read(c, i) == cleanPage(resps[c][i].json)

\* C28: with the requests of two calls interleaved in any order, the
\* follow-up GET of a createPage asks for the id its own POST returned, the
\* PUT of an updatePage carries the space key of its own first read and its
\* own title, content and version, and a call that returns returns the
\* normalization of the last response to its own requests.
C28_CallsDoNotInterfere ==
  \A c \in AllCallers :
    /\ Creating(c) /\ Len(log[c]) >= 2 =>
         /\ Succeeded(resps[c][1])
         /\ log[c][2] = Request("GET", PageUrl(resps[c][1].json.id), NoBody)
    /\ Updating(c) /\ Len(log[c]) >= 2 =>
         /\ Succeeded(resps[c][1])
         /\ log[c][2] = Request("PUT", PutUrl(args[c].pageId),
                                UpdatePayload(Read(c, 1), args[c].title, args[c].content,
                                              args[c].version))
         /\ log[c][2].body.space.key = Read(c, 1).spaceKey
    /\ HasReturned(c) =>
         /\ Len(resps[c]) = Len(log[c]) /\ Succeeded(LastOutcome(c))
         /\ result[c].value = Read(c, Len(resps[c]))
         /\ result[c].value.id = LastRequest(c).url[8]

\* both calls have returned after their requests were interleaved: two
\* createPage calls whose POSTs were answered in the order opposite to the
\* order of their GETs' ids, or a createPage and an updatePage of the page
\* the other call created, in another space than the page updated first
C28_Witness ==
  \E c, d \in AllCallers :
    /\ c # d /\ HasReturned(c) /\ HasReturned(d) /\ Creating(c)
    /\ result[c].value.id = NewIds[2]
    /\ \/ /\ Creating(d) /\ result[d].value.id = NewIds[1]
          /\ result[c].value.spaceKey # result[d].value.spaceKey
          /\ result[c].value.title = TitleOf(c) /\ result[d].value.title = TitleOf(d)
       \/ /\ Updating(d) /\ args[d].pageId = NewIds[1]
          /\ result[d].value.title = TitleOf(d)

\* the two calls are updatePage calls on the same page with the same version
SameUpdate(c, d) ==
  /\ c # d /\ Updating(c) /\ Updating(d)
  /\ args[c].pageId = args[d].pageId /\ args[c].version = args[d].version

\* C29: of two updatePage calls on the same page with the same version,
\* interleaved in any order against a service that accepts a PUT only with
\* the current version + 1, at most one has its PUT accepted and at most one
\* returns; the version ends at most one above the version either call read;
\* the call whose PUT the service answers after accepting the other's gets
\* an error response and throws the error built from it.
C29_AtMostOneUpdateWins ==
  \A c, d \in AllCallers :
    SameUpdate(c, d) =>
      /\ ~(PutAccepted(c) /\ PutAccepted(d))
      /\ ~(HasReturned(c) /\ HasReturned(d))
      /\ HasRead(c) => pages[args[c].pageId].version <= ReadVersion(c) + 1
      /\ PutAccepted(c) /\ Len(resps[d]) >= 2 =>
           /\ ~Succeeded(resps[d][2])
           /\ Len(log[d]) = 2
           /\ pc[d] = "done" =>
                /\ result[d].kind = "throw"
                /\ Contains(result[d].error.message, <<Conflict.message>>)

\* both calls read the page at the version they were given before either
\* PUT was served; one PUT was accepted and that call returned, the other
\* was refused and that call threw
C29_Witness ==
  \E c, d \in AllCallers :
    /\ SameUpdate(c, d)
    /\ HasRead(c) /\ HasRead(d)
    /\ ReadVersion(c) = args[c].version /\ ReadVersion(d) = args[d].version
    /\ PutAccepted(c) /\ HasReturned(c)
    /\ result[c].value.version = args[c].version + 1
    /\ Len(resps[d]) = 2 /\ HasThrown(d)
    /\ pages[args[c].pageId].version = args[c].version + 1
    /\ pages[args[c].pageId].title = TitleOf(c)

\* out is the first characters of text
IsPrefix(out, text) == Len(out) <= Len(text) /\ out = SubSeq(text, 1, Len(out))

\* C30: the result of truncateContent(text, maxLength) is at most maxLength + 3
\* characters long, and it is text, or a prefix of text, or a prefix of text
\* followed by "...".
C30_BoundedPrefix ==
  \A c \in AllCallers :
    Truncated(c) =>
      LET text == args[c].content
          out == result[c].value
      IN  /\ Len(out) <= args[c].maxLength + 3
          /\ \/ out = text
             \/ IsPrefix(out, text)
             \/ \E k \in 0..Len(text) : out = SubSeq(text, 1, k) \o Ellipsis

\* a text has been cut at the space at index maxLength: the result is
\* maxLength + 3 characters long and is not a prefix of the text
C30_Witness ==
  \E c \in AllCallers :
    /\ Truncated(c)
    /\ Len(args[c].content) > args[c].maxLength /\ args[c].maxLength > 0
    /\ Len(result[c].value) = args[c].maxLength + 3
    /\ ~IsPrefix(result[c].value, args[c].content)

====
